---- MODULE Spec2Model ----
(***************************************************************************)
(* A model of the git layer of emdash: the change-notification registries  *)
(* of src/main/ipc/gitIpc.ts and the local backend of                      *)
(* src/main/services/GitService.ts.                                        *)
(*                                                                         *)
(* Text (stdout, stderr, file contents, paths) is modelled as a sequence   *)
(* of one-character strings, so that split, startsWith, slice and includes *)
(* are computed as the code computes them.                                 *)
(***************************************************************************)
EXTENDS Integers, Sequences, FiniteSets, TLC

\* ------------------------------------------------------------------------
\* Bounds of the model
\* ------------------------------------------------------------------------

\* how many times randomUUID() may be called (watch subscriptions requested)
MaxWatchIds == 3
\* how many raw filesystem events the environment delivers
MaxFsEvents == 2
\* how many times the poll interval ticks
MaxPollTicks == 2
\* how many times the status of the remote working tree changes
MaxRemoteChanges == 1

\* ------------------------------------------------------------------------
\* Change-notification layer: state
\* ------------------------------------------------------------------------

VARIABLES
    supportsRecursiveWatch, \* gitIpc.ts:40, fixed per process (platform)
    remoteProjects,         \* the working trees configured as remote projects
    gitStatusWatchers,      \* gitIpc.ts:48, Map taskPath -> GitStatusWatchEntry
    remoteStatusPollers,    \* gitIpc.ts:58, Map taskPath -> RemoteStatusPollEntry
    openWatchers,           \* fs.FSWatcher handles that are open, per path
    liveTimers,             \* debounce timeouts scheduled in the event loop, per path
    liveIntervals,          \* poll intervals scheduled in the event loop, per path
    inFlightPolls,          \* interval callbacks awaiting getStatusDetailed, per path
    remoteStatus,           \* what getStatusDetailed would return now, per path
    broadcasts,             \* 'git:status-changed' messages sent, in order
    nextWatchId,            \* randomUUID(): the next fresh token
    watchResult,            \* what the last watch/unwatch handler returned
    returnedIds,            \* history: watchIds returned by watch(path)
    releasedIds,            \* history: watchIds passed to unwatch(path, id)
    watcherErrored,         \* history: the path's watcher reported an error
    pollLog,                \* history: how each completed poll cycle of a path ended
    fsEventsLeft, pollTicksLeft, remoteChangesLeft

watchVars == << supportsRecursiveWatch, remoteProjects, gitStatusWatchers, remoteStatusPollers,
                openWatchers, liveTimers, liveIntervals, inFlightPolls,
                remoteStatus, broadcasts, nextWatchId, watchResult,
                returnedIds, releasedIds, watcherErrored, pollLog,
                fsEventsLeft, pollTicksLeft, remoteChangesLeft >>

\* The backend's side: a repository and the calls made on it.
VARIABLES
    repo,        \* the repository of the working tree (git's own state)
    call,        \* the backend call in progress or last completed
    commitList   \* CommitList's React state: commits, aheadCount, hasMore

gitVars == << repo, call, commitList >>

\* The files' side: a working tree, and a diff text on its way through the parser.
VARIABLES
    worktree,    \* the commits' record of the tracked file, and the files on disk
    diffOutput,  \* the stdout of a git diff, handed to parseDiffLines
    parsed       \* what parseDiffLines made of it

fileVars == << worktree, diffOutput, parsed >>

\* The renderer's side: the React state of the component at work, and the
\* requests it has sent over IPC that are still awaiting their response.
VARIABLES
    renderer,    \* the state (useState, useRef, props) of the component at work
    ipc          \* the invocations in flight, oldest first

rendererVars == << renderer, ipc >>

vars == << watchVars, gitVars, fileVars, rendererVars >>

\* Map.get() of a missing key; an optional string left out; an optional handle or
\* watchId left out (handles and watchIds are numbered from 1).
NoEntry == [absent |-> TRUE]
Undefined == "undefined"
NoHandle == 0

TaskPath == "/work/task"
Paths == {TaskPath}

\* The task/project registry: which working trees belong to a remote project.
resolveRemoteProjectForWorktreePath(taskPath) ==
    IF taskPath \in remoteProjects THEN [sshConnectionId |-> "conn-1"] ELSE NoEntry

\* One change of a status listing, and the listings the remote tree goes through.
Change(p, s, staged) == [path |-> p, status |-> s, isStaged |-> staged]
StatusListings ==
    { << >>,
      << Change("a.ts", "modified", FALSE) >>,
      << Change("a.ts", "modified", TRUE) >>,
      << Change("a.ts", "modified", TRUE), Change("b.ts", "added", FALSE) >> }

\* changes.map((c) => `${c.path}:${c.status}:${c.isStaged}`).join('|'), kept as
\* the ordered list of its tuples ('' is the empty list).
StatusHash(changes) ==
    [i \in 1..Len(changes) |->
        << changes[i].path, changes[i].status, changes[i].isStaged >>]

\* broadcastGitStatusChange(taskPath, error?)
broadcastGitStatusChange(taskPath, error) ==
    broadcasts' = Append(broadcasts, [taskPath |-> taskPath, error |-> error])

\* ------------------------------------------------------------------------
\* Remote poller
\* ------------------------------------------------------------------------

ensureRemoteStatusPoller(taskPath, connectionId) ==
    LET watchId == nextWatchId
        existing == remoteStatusPollers[taskPath]
    IN  /\ nextWatchId' = nextWatchId + 1
        /\ watchResult' = [success |-> TRUE, watchId |-> watchId]
        /\ returnedIds' = [returnedIds EXCEPT ![taskPath] = @ \cup {watchId}]
        /\ IF existing # NoEntry
           THEN /\ remoteStatusPollers' =
                     [remoteStatusPollers EXCEPT ![taskPath].watchIds = @ \cup {watchId}]
                /\ UNCHANGED liveIntervals
           ELSE /\ remoteStatusPollers' =
                     [remoteStatusPollers EXCEPT ![taskPath] =
                         [intervalId |-> watchId,
                          watchIds |-> {watchId},
                          lastStatusHash |-> << >>,
                          connectionId |-> connectionId]]
                /\ liveIntervals' = [liveIntervals EXCEPT ![taskPath] = @ \cup {watchId}]
        /\ UNCHANGED << rendererVars, gitVars, fileVars, pollLog, supportsRecursiveWatch, remoteProjects,
          gitStatusWatchers, openWatchers,
                        liveTimers, inFlightPolls, remoteStatus, broadcasts,
                        releasedIds, watcherErrored, fsEventsLeft, pollTicksLeft,
                        remoteChangesLeft >>

\* A release that removes the entry and leaves its interval scheduled.
releaseRemoteStatusPollerKeepingInterval(taskPath, watchId) ==
    LET entry == remoteStatusPollers[taskPath]
        ids == IF watchId # NoHandle THEN entry.watchIds \ {watchId}
               ELSE entry.watchIds
    IN  /\ watchResult' = [success |-> TRUE]
        /\ releasedIds' = [releasedIds EXCEPT ![taskPath] = @ \cup ({watchId} \ {NoHandle})]
        /\ IF entry = NoEntry
           THEN UNCHANGED << remoteStatusPollers, liveIntervals >>
           ELSE IF Cardinality(ids) <= 0
                THEN /\ UNCHANGED liveIntervals
                     /\ remoteStatusPollers' =
                          [remoteStatusPollers EXCEPT ![taskPath] = NoEntry]
                ELSE /\ remoteStatusPollers' =
                          [remoteStatusPollers EXCEPT ![taskPath].watchIds = ids]
                     /\ UNCHANGED liveIntervals
        /\ UNCHANGED << rendererVars, gitVars, fileVars, pollLog, supportsRecursiveWatch, remoteProjects,
          gitStatusWatchers, openWatchers,
                        liveTimers, inFlightPolls, remoteStatus, broadcasts,
                        nextWatchId, returnedIds, watcherErrored, fsEventsLeft,
                        pollTicksLeft, remoteChangesLeft >>

releaseRemoteStatusPoller(taskPath, watchId) ==
    LET entry == remoteStatusPollers[taskPath]
        ids == IF watchId # NoHandle THEN entry.watchIds \ {watchId}
               ELSE entry.watchIds
    IN  /\ watchResult' = [success |-> TRUE]
        /\ releasedIds' = [releasedIds EXCEPT ![taskPath] = @ \cup ({watchId} \ {NoHandle})]
        /\ IF entry = NoEntry
           THEN UNCHANGED << remoteStatusPollers, liveIntervals >>
           ELSE IF Cardinality(ids) <= 0
                THEN /\ liveIntervals' =
                          [liveIntervals EXCEPT ![taskPath] = @ \ {entry.intervalId}]
                     /\ remoteStatusPollers' =
                          [remoteStatusPollers EXCEPT ![taskPath] = NoEntry]
                ELSE /\ remoteStatusPollers' =
                          [remoteStatusPollers EXCEPT ![taskPath].watchIds = ids]
                     /\ UNCHANGED liveIntervals
        /\ UNCHANGED << rendererVars, gitVars, fileVars, pollLog, supportsRecursiveWatch, remoteProjects,
          gitStatusWatchers, openWatchers,
                        liveTimers, inFlightPolls, remoteStatus, broadcasts,
                        nextWatchId, returnedIds, watcherErrored, fsEventsLeft,
                        pollTicksLeft, remoteChangesLeft >>

\* The interval fires: the callback starts and awaits getStatusDetailed.
PollTick(taskPath) ==
    /\ liveIntervals[taskPath] # {}
    /\ pollTicksLeft > 0
    /\ pollTicksLeft' = pollTicksLeft - 1
    /\ inFlightPolls' = [inFlightPolls EXCEPT ![taskPath] = @ + 1]
    /\ UNCHANGED << rendererVars, gitVars, fileVars, pollLog, supportsRecursiveWatch, remoteProjects,
      gitStatusWatchers, remoteStatusPollers,
                    openWatchers, liveTimers, liveIntervals, remoteStatus, broadcasts,
                    nextWatchId, watchResult, returnedIds, releasedIds,
                    watcherErrored, fsEventsLeft, remoteChangesLeft >>

\* A callback that broadcasts on every successful poll.
PollResolvesAlwaysBroadcasting(taskPath) ==
    /\ inFlightPolls[taskPath] > 0
    /\ inFlightPolls' = [inFlightPolls EXCEPT ![taskPath] = @ - 1]
    /\ pollLog' = [pollLog EXCEPT ![taskPath] =
                       Append(@, IF remoteStatusPollers[taskPath] = NoEntry THEN "orphaned"
                                 ELSE IF StatusHash(remoteStatus[taskPath])
                                           # remoteStatusPollers[taskPath].lastStatusHash
                                 THEN "changed" ELSE "unchanged")]
    /\ LET hash == StatusHash(remoteStatus[taskPath])
           poller == remoteStatusPollers[taskPath]
       IN  IF poller = NoEntry
           THEN UNCHANGED << remoteStatusPollers, broadcasts >>
           ELSE /\ remoteStatusPollers' =
                     [remoteStatusPollers EXCEPT ![taskPath].lastStatusHash = hash]
                /\ broadcastGitStatusChange(taskPath, Undefined)
    /\ UNCHANGED << rendererVars, gitVars, fileVars, supportsRecursiveWatch, remoteProjects,
                    gitStatusWatchers, openWatchers,
                    liveTimers, liveIntervals, remoteStatus, nextWatchId, watchResult,
                    returnedIds, releasedIds, watcherErrored, fsEventsLeft,
                    pollTicksLeft, remoteChangesLeft >>

\* getStatusDetailed resolves with the tree's status and the callback goes on.
PollResolves(taskPath) ==
    /\ inFlightPolls[taskPath] > 0
    /\ inFlightPolls' = [inFlightPolls EXCEPT ![taskPath] = @ - 1]
    /\ pollLog' = [pollLog EXCEPT ![taskPath] =
                       Append(@, IF remoteStatusPollers[taskPath] = NoEntry THEN "orphaned"
                                 ELSE IF StatusHash(remoteStatus[taskPath])
                                           # remoteStatusPollers[taskPath].lastStatusHash
                                 THEN "changed" ELSE "unchanged")]
    /\ LET hash == StatusHash(remoteStatus[taskPath])
           poller == remoteStatusPollers[taskPath]
       IN  IF poller = NoEntry
           THEN UNCHANGED << remoteStatusPollers, broadcasts >>
           ELSE IF hash # poller.lastStatusHash
                THEN /\ remoteStatusPollers' =
                          [remoteStatusPollers EXCEPT ![taskPath].lastStatusHash = hash]
                     /\ broadcastGitStatusChange(taskPath, Undefined)
                ELSE UNCHANGED << remoteStatusPollers, broadcasts >>
    /\ UNCHANGED << rendererVars, gitVars, fileVars, supportsRecursiveWatch, remoteProjects,
      gitStatusWatchers, openWatchers,
                    liveTimers, liveIntervals, remoteStatus, nextWatchId, watchResult,
                    returnedIds, releasedIds, watcherErrored, fsEventsLeft,
                    pollTicksLeft, remoteChangesLeft >>

\* A catch that forgets the stored fingerprint.
PollRejectsClearingFingerprint(taskPath) ==
    /\ inFlightPolls[taskPath] > 0
    /\ inFlightPolls' = [inFlightPolls EXCEPT ![taskPath] = @ - 1]
    /\ pollLog' = [pollLog EXCEPT ![taskPath] = Append(@, "failed")]
    /\ remoteStatusPollers' =
          [remoteStatusPollers EXCEPT ![taskPath] =
              IF @ = NoEntry THEN @ ELSE [@ EXCEPT !.lastStatusHash = << >>]]
    /\ UNCHANGED << rendererVars, gitVars, fileVars, supportsRecursiveWatch, remoteProjects,
                    gitStatusWatchers,
                    openWatchers, liveTimers, liveIntervals, remoteStatus, broadcasts,
                    nextWatchId, watchResult, returnedIds, releasedIds,
                    watcherErrored, fsEventsLeft, pollTicksLeft, remoteChangesLeft >>

\* getStatusDetailed rejects (the connection dropped): the catch swallows it.
PollRejects(taskPath) ==
    /\ inFlightPolls[taskPath] > 0
    /\ inFlightPolls' = [inFlightPolls EXCEPT ![taskPath] = @ - 1]
    /\ pollLog' = [pollLog EXCEPT ![taskPath] = Append(@, "failed")]
    /\ UNCHANGED << rendererVars, gitVars, fileVars, supportsRecursiveWatch, remoteProjects,
      gitStatusWatchers, remoteStatusPollers,
                    openWatchers, liveTimers, liveIntervals, remoteStatus, broadcasts,
                    nextWatchId, watchResult, returnedIds, releasedIds,
                    watcherErrored, fsEventsLeft, pollTicksLeft, remoteChangesLeft >>

\* Somebody changes the remote working tree.
RemoteTreeChanges(taskPath, listing) ==
    /\ remoteChangesLeft > 0
    /\ resolveRemoteProjectForWorktreePath(taskPath) # NoEntry
    /\ listing # remoteStatus[taskPath]
    /\ remoteChangesLeft' = remoteChangesLeft - 1
    /\ remoteStatus' = [remoteStatus EXCEPT ![taskPath] = listing]
    /\ UNCHANGED << rendererVars, gitVars, fileVars, pollLog, supportsRecursiveWatch, remoteProjects,
      gitStatusWatchers, remoteStatusPollers,
                    openWatchers, liveTimers, liveIntervals, inFlightPolls, broadcasts,
                    nextWatchId, watchResult, returnedIds, releasedIds,
                    watcherErrored, fsEventsLeft, pollTicksLeft >>

\* ------------------------------------------------------------------------
\* Local watcher
\* ------------------------------------------------------------------------

\* pathExists: fs.existsSync(taskPath); watchThrows: fs.watch throws.
ensureGitStatusWatcher(taskPath, pathExists, watchThrows) ==
    LET existing == gitStatusWatchers[taskPath]
        watchId == nextWatchId
        fail(error) ==
            /\ watchResult' = [success |-> FALSE, error |-> error]
            /\ UNCHANGED << gitStatusWatchers, openWatchers, returnedIds >>
    IN  /\ IF ~supportsRecursiveWatch
           THEN fail("recursive-watch-unsupported") /\ UNCHANGED nextWatchId
           ELSE IF ~pathExists
           THEN fail("workspace-unavailable") /\ UNCHANGED nextWatchId
           ELSE /\ nextWatchId' = nextWatchId + 1
                /\ IF existing # NoEntry
                   THEN /\ gitStatusWatchers' =
                             [gitStatusWatchers EXCEPT ![taskPath].watchIds = @ \cup {watchId}]
                        /\ watchResult' = [success |-> TRUE, watchId |-> watchId]
                        /\ returnedIds' = [returnedIds EXCEPT ![taskPath] = @ \cup {watchId}]
                        /\ UNCHANGED openWatchers
                   ELSE IF watchThrows
                   THEN fail("Failed to watch workspace")
                   ELSE /\ openWatchers' = [openWatchers EXCEPT ![taskPath] = @ \cup {watchId}]
                        /\ gitStatusWatchers' =
                             [gitStatusWatchers EXCEPT ![taskPath] =
                                 [watcher |-> watchId,
                                  watchIds |-> {watchId},
                                  debounceTimer |-> NoHandle]]
                        /\ watchResult' = [success |-> TRUE, watchId |-> watchId]
                        /\ returnedIds' = [returnedIds EXCEPT ![taskPath] = @ \cup {watchId}]
        /\ UNCHANGED << rendererVars, gitVars, fileVars, pollLog, supportsRecursiveWatch, remoteProjects,
          remoteStatusPollers, liveTimers,
                        liveIntervals, inFlightPolls, remoteStatus, broadcasts,
                        releasedIds, watcherErrored, fsEventsLeft, pollTicksLeft,
                        remoteChangesLeft >>

\* A release that forgets the reference count: any unwatch tears the watcher down.
releaseGitStatusWatcherUncounted(taskPath, watchId) ==
    LET entry == gitStatusWatchers[taskPath]
    IN  /\ watchResult' = [success |-> TRUE]
        /\ releasedIds' = [releasedIds EXCEPT ![taskPath] = @ \cup ({watchId} \ {NoHandle})]
        /\ IF entry = NoEntry
           THEN UNCHANGED << gitStatusWatchers, openWatchers, liveTimers >>
           ELSE /\ liveTimers' =
                     [liveTimers EXCEPT ![taskPath] = @ \ {entry.debounceTimer}]
                /\ openWatchers' =
                     [openWatchers EXCEPT ![taskPath] = @ \ {entry.watcher}]
                /\ gitStatusWatchers' =
                     [gitStatusWatchers EXCEPT ![taskPath] = NoEntry]
        /\ UNCHANGED << rendererVars, gitVars, fileVars, pollLog, supportsRecursiveWatch, remoteProjects,
          remoteStatusPollers, liveIntervals,
                        inFlightPolls, remoteStatus, broadcasts, nextWatchId,
                        returnedIds, watcherErrored, fsEventsLeft, pollTicksLeft,
                        remoteChangesLeft >>

releaseGitStatusWatcher(taskPath, watchId) ==
    LET entry == gitStatusWatchers[taskPath]
        ids == IF watchId # NoHandle THEN entry.watchIds \ {watchId}
               ELSE entry.watchIds
    IN  /\ watchResult' = [success |-> TRUE]
        /\ releasedIds' = [releasedIds EXCEPT ![taskPath] = @ \cup ({watchId} \ {NoHandle})]
        /\ IF entry = NoEntry
           THEN UNCHANGED << gitStatusWatchers, openWatchers, liveTimers >>
           ELSE IF Cardinality(ids) <= 0
                THEN /\ liveTimers' =
                          [liveTimers EXCEPT ![taskPath] = @ \ {entry.debounceTimer}]
                     /\ openWatchers' =
                          [openWatchers EXCEPT ![taskPath] = @ \ {entry.watcher}]
                     /\ gitStatusWatchers' =
                          [gitStatusWatchers EXCEPT ![taskPath] = NoEntry]
                ELSE /\ gitStatusWatchers' =
                          [gitStatusWatchers EXCEPT ![taskPath].watchIds = ids]
                     /\ UNCHANGED << openWatchers, liveTimers >>
        /\ UNCHANGED << rendererVars, gitVars, fileVars, pollLog, supportsRecursiveWatch, remoteProjects,
          remoteStatusPollers, liveIntervals,
                        inFlightPolls, remoteStatus, broadcasts, nextWatchId,
                        returnedIds, watcherErrored, fsEventsLeft, pollTicksLeft,
                        remoteChangesLeft >>

\* A callback that schedules a new timeout without clearing the pending one.
FsEventWithoutRestart(taskPath) ==
    /\ openWatchers[taskPath] # {}
    /\ fsEventsLeft > 0
    /\ fsEventsLeft' = fsEventsLeft - 1
    /\ LET entry == gitStatusWatchers[taskPath]
           timer == fsEventsLeft
       IN  IF entry = NoEntry
           THEN UNCHANGED << gitStatusWatchers, liveTimers >>
           ELSE /\ liveTimers' = [liveTimers EXCEPT ![taskPath] = @ \cup {timer}]
                /\ gitStatusWatchers' =
                     [gitStatusWatchers EXCEPT ![taskPath].debounceTimer = timer]
    /\ UNCHANGED << rendererVars, gitVars, fileVars, pollLog, supportsRecursiveWatch, remoteProjects,
                    remoteStatusPollers, openWatchers,
                    liveIntervals, inFlightPolls, remoteStatus, broadcasts,
                    nextWatchId, watchResult, returnedIds, releasedIds,
                    watcherErrored, pollTicksLeft, remoteChangesLeft >>

\* The fs.watch callback: a raw filesystem event of an open watcher. The new
\* timeout's handle is named after the number of events still to come.
FsEvent(taskPath) ==
    /\ openWatchers[taskPath] # {}
    /\ fsEventsLeft > 0
    /\ fsEventsLeft' = fsEventsLeft - 1
    /\ LET entry == gitStatusWatchers[taskPath]
           timer == fsEventsLeft
       IN  IF entry = NoEntry
           THEN UNCHANGED << gitStatusWatchers, liveTimers >>
           ELSE /\ liveTimers' =
                     [liveTimers EXCEPT ![taskPath] = (@ \ {entry.debounceTimer}) \cup {timer}]
                /\ gitStatusWatchers' =
                     [gitStatusWatchers EXCEPT ![taskPath].debounceTimer = timer]
    /\ UNCHANGED << rendererVars, gitVars, fileVars, pollLog, supportsRecursiveWatch, remoteProjects,
      remoteStatusPollers, openWatchers,
                    liveIntervals, inFlightPolls, remoteStatus, broadcasts,
                    nextWatchId, watchResult, returnedIds, releasedIds,
                    watcherErrored, pollTicksLeft, remoteChangesLeft >>

\* The fs.watch callback run for a raw event of a watcher that has been closed
\* since the event was queued: the callback is the same, it looks the path up
\* again.
LateFsEvent(taskPath) ==
    /\ resolveRemoteProjectForWorktreePath(taskPath) = NoEntry
    /\ returnedIds[taskPath] # {}
    /\ openWatchers[taskPath] = {}
    /\ fsEventsLeft > 0
    /\ fsEventsLeft' = fsEventsLeft - 1
    /\ LET entry == gitStatusWatchers[taskPath]
           timer == fsEventsLeft
       IN  IF entry = NoEntry
           THEN UNCHANGED << gitStatusWatchers, liveTimers >>
           ELSE /\ liveTimers' =
                     [liveTimers EXCEPT ![taskPath] = (@ \ {entry.debounceTimer}) \cup {timer}]
                /\ gitStatusWatchers' =
                     [gitStatusWatchers EXCEPT ![taskPath].debounceTimer = timer]
    /\ UNCHANGED << rendererVars, gitVars, fileVars, pollLog, supportsRecursiveWatch, remoteProjects,
                    remoteStatusPollers, openWatchers,
                    liveIntervals, inFlightPolls, remoteStatus, broadcasts,
                    nextWatchId, watchResult, returnedIds, releasedIds,
                    watcherErrored, pollTicksLeft, remoteChangesLeft >>

\* A debounce timeout fires after GIT_STATUS_DEBOUNCE_MS.
DebounceFires(taskPath, timer) ==
    /\ timer \in liveTimers[taskPath]
    /\ liveTimers' = [liveTimers EXCEPT ![taskPath] = @ \ {timer}]
    /\ broadcastGitStatusChange(taskPath, Undefined)
    /\ UNCHANGED << rendererVars, gitVars, fileVars, pollLog, supportsRecursiveWatch, remoteProjects,
      gitStatusWatchers, remoteStatusPollers,
                    openWatchers, liveIntervals, inFlightPolls, remoteStatus,
                    nextWatchId, watchResult, returnedIds, releasedIds,
                    watcherErrored, fsEventsLeft, pollTicksLeft, remoteChangesLeft >>

\* An error handler that forgets the pending debounce timeout.
WatcherErrorKeepingTimer(taskPath) ==
    /\ openWatchers[taskPath] # {}
    /\ LET entry == gitStatusWatchers[taskPath]
       IN  openWatchers' =
                [openWatchers EXCEPT ![taskPath] =
                    IF entry # NoEntry THEN @ \ {entry.watcher} ELSE @]
    /\ gitStatusWatchers' = [gitStatusWatchers EXCEPT ![taskPath] = NoEntry]
    /\ broadcastGitStatusChange(taskPath, "watcher-error")
    /\ watcherErrored' = [watcherErrored EXCEPT ![taskPath] = TRUE]
    /\ UNCHANGED << rendererVars, gitVars, fileVars, pollLog, supportsRecursiveWatch, remoteProjects,
                    remoteStatusPollers, liveTimers, liveIntervals,
                    inFlightPolls, remoteStatus, nextWatchId, watchResult,
                    returnedIds, releasedIds, fsEventsLeft, pollTicksLeft,
                    remoteChangesLeft >>

\* watcher.on('error'): an open watcher reports an error.
WatcherError(taskPath) ==
    /\ openWatchers[taskPath] # {}
    /\ LET entry == gitStatusWatchers[taskPath]
       IN  /\ liveTimers' =
                [liveTimers EXCEPT ![taskPath] =
                    IF entry # NoEntry THEN @ \ {entry.debounceTimer} ELSE @]
           /\ openWatchers' =
                [openWatchers EXCEPT ![taskPath] =
                    IF entry # NoEntry THEN @ \ {entry.watcher} ELSE @]
    /\ gitStatusWatchers' = [gitStatusWatchers EXCEPT ![taskPath] = NoEntry]
    /\ broadcastGitStatusChange(taskPath, "watcher-error")
    /\ watcherErrored' = [watcherErrored EXCEPT ![taskPath] = TRUE]
    /\ UNCHANGED << rendererVars, gitVars, fileVars, pollLog, supportsRecursiveWatch, remoteProjects,
      remoteStatusPollers, liveIntervals,
                    inFlightPolls, remoteStatus, nextWatchId, watchResult,
                    returnedIds, releasedIds, fsEventsLeft, pollTicksLeft,
                    remoteChangesLeft >>

\* ------------------------------------------------------------------------
\* The IPC handlers of the subscription lifecycle
\* ------------------------------------------------------------------------

\* ipcMain.handle('git:watch-status')
GitWatchStatus(taskPath, pathExists, watchThrows) ==
    /\ nextWatchId <= MaxWatchIds
    /\ LET remoteProject == resolveRemoteProjectForWorktreePath(taskPath)
       IN  IF remoteProject # NoEntry
           THEN ensureRemoteStatusPoller(taskPath, remoteProject.sshConnectionId)
           ELSE ensureGitStatusWatcher(taskPath, pathExists, watchThrows)

\* ipcMain.handle('git:unwatch-status')
GitUnwatchStatus(taskPath, watchId) ==
    LET remoteProject == resolveRemoteProjectForWorktreePath(taskPath)
    IN  IF remoteProject # NoEntry
        THEN releaseRemoteStatusPoller(taskPath, watchId)
        ELSE releaseGitStatusWatcher(taskPath, watchId)

InitWatch ==
    /\ supportsRecursiveWatch \in BOOLEAN
    /\ remoteProjects \in SUBSET Paths
    /\ gitStatusWatchers = [p \in Paths |-> NoEntry]
    /\ remoteStatusPollers = [p \in Paths |-> NoEntry]
    /\ openWatchers = [p \in Paths |-> {}]
    /\ liveTimers = [p \in Paths |-> {}]
    /\ liveIntervals = [p \in Paths |-> {}]
    /\ inFlightPolls = [p \in Paths |-> 0]
    /\ remoteStatus = [p \in Paths |-> << >>]
    /\ broadcasts = << >>
    /\ nextWatchId = 1
    /\ watchResult = NoEntry
    /\ returnedIds = [p \in Paths |-> {}]
    /\ releasedIds = [p \in Paths |-> {}]
    /\ watcherErrored = [p \in Paths |-> FALSE]
    /\ pollLog = [p \in Paths |-> << >>]
    /\ fsEventsLeft = MaxFsEvents
    /\ pollTicksLeft = MaxPollTicks
    /\ remoteChangesLeft = MaxRemoteChanges

NextWatch ==
    \/ \E p \in Paths, pathExists \in BOOLEAN, watchThrows \in BOOLEAN :
          GitWatchStatus(p, pathExists, watchThrows)
    \/ \E p \in Paths : \E id \in returnedIds[p] \cup {NoHandle} :
          GitUnwatchStatus(p, id)
    \/ \E p \in Paths : FsEvent(p)
    \/ \E p \in Paths : LateFsEvent(p)
    \/ \E p \in Paths : \E t \in liveTimers[p] : DebounceFires(p, t)
    \/ \E p \in Paths : WatcherError(p)
    \/ \E p \in Paths : PollTick(p)
    \/ \E p \in Paths : PollResolves(p)
    \/ \E p \in Paths : PollRejects(p)
    \/ \E p \in Paths : \E l \in StatusListings : RemoteTreeChanges(p, l)

\* When the backend is at work, the notification layer stays as constructed.
IdleWatch ==
    /\ InitWatch
    /\ supportsRecursiveWatch
    /\ remoteProjects = {}

\* ------------------------------------------------------------------------
\* Text: a string is the sequence of its characters
\* ------------------------------------------------------------------------

\* An optional number: << >> is undefined (or NaN), << n >> is n.
None == << >>
Some(n) == << n >>

\* s.includes(sub)
Includes(s, sub) ==
    \E i \in 0..(Len(s) - Len(sub)) : SubSeq(s, i + 1, i + Len(sub)) = sub

\* s.startsWith(p)
StartsWith(s, p) == Len(p) <= Len(s) /\ SubSeq(s, 1, Len(p)) = p

\* s.split(c) for a one-character separator c
RECURSIVE Split(_, _)
Split(s, c) ==
    IF \A i \in 1..Len(s) : s[i] # c
    THEN << s >>
    ELSE LET i == CHOOSE k \in 1..Len(s) : s[k] = c /\ \A j \in 1..(k - 1) : s[j] # c
         IN  << SubSeq(s, 1, i - 1) >> \o Split(SubSeq(s, i + 1, Len(s)), c)

WhiteSpace == {" ", "\n", "\t", "\r"}

\* s.trim()
RECURSIVE TrimStart(_)
TrimStart(s) ==
    IF s # << >> /\ s[1] \in WhiteSpace THEN TrimStart(Tail(s)) ELSE s
RECURSIVE TrimEnd(_)
TrimEnd(s) ==
    IF s # << >> /\ s[Len(s)] \in WhiteSpace THEN TrimEnd(SubSeq(s, 1, Len(s) - 1)) ELSE s
Trim(s) == TrimEnd(TrimStart(s))

DigitChars == << "0", "1", "2", "3", "4", "5", "6", "7", "8", "9" >>
IsDigit(c) == \E d \in 1..10 : DigitChars[d] = c
DigitValue(c) == (CHOOSE d \in 1..10 : DigitChars[d] = c) - 1

\* The decimal text git prints for a count.
RECURSIVE DecimalText(_)
DecimalText(n) ==
    IF n < 10 THEN << DigitChars[n + 1] >>
    ELSE DecimalText(n \div 10) \o << DigitChars[(n % 10) + 1] >>

\* parseInt(s, 10) of an unsigned text: the value of the leading digits, NaN
\* (None) when s does not start with a digit.
RECURSIVE LeadingDigits(_, _)
LeadingDigits(s, acc) ==
    IF s # << >> /\ IsDigit(s[1])
    THEN LeadingDigits(Tail(s), acc * 10 + DigitValue(s[1]))
    ELSE acc
ParseInt10(s) ==
    LET t == TrimStart(s)
    IN  IF t # << >> /\ IsDigit(t[1]) THEN Some(LeadingDigits(t, 0)) ELSE None

\* parseInt(s, 10) || 0
ParseIntOr0(s) == IF ParseInt10(s) = None THEN 0 ELSE ParseInt10(s)[1]

\* ------------------------------------------------------------------------
\* The repository behind a local working tree, and the git commands on it
\* ------------------------------------------------------------------------

\* commits HEAD may have when a behaviour starts, at most
InitCommits == 2
\* commits that land during a behaviour, at most
MaxNewCommits == 1
\* the page size of the paginating history view (CommitList's PAGE_SIZE is 50)
PageSize == 2

\* A ref of the repository: absent, or the commits reachable from it.
NoRef == [exists |-> FALSE, commits |-> {}]
Ref(cs) == [exists |-> TRUE, commits |-> cs]

SeqToSet(q) == { q[i] : i \in 1..Len(q) }

\* A commit made by somebody else and known only to the remote.
RemoteOnlyCommit == 0 - 1

\* The history of n commits, newest first: commit n, ..., commit 1.
NewestFirst(n) == [i \in 1..n |-> n + 1 - i]

\* repo.history: the commits of HEAD, newest first (empty: no commit yet);
\* repo.nextCommit: the name of the next commit to be created;
\* repo.hasOrigin: a remote named origin is configured;
\* repo.upstreamConfigured: the current branch has tracking configuration;
\* repo.originBranch: the remote-tracking ref origin/<current branch>;
\* repo.originHead: refs/remotes/origin/HEAD, resolved to the default branch.
Repos ==
    { r \in [history : { NewestFirst(n) : n \in 0..InitCommits },
             nextCommit : {InitCommits + 1},
             hasOrigin : BOOLEAN,
             upstreamConfigured : BOOLEAN,
             originBranch : {NoRef} \cup { Ref(1..k) : k \in 1..InitCommits }
                                    \cup { Ref((1..k) \cup {RemoteOnlyCommit}) : k \in 1..InitCommits },
             originHead : {NoRef, Ref({1})}] :
        /\ ~r.hasOrigin =>
              ~r.upstreamConfigured /\ r.originBranch = NoRef /\ r.originHead = NoRef
        /\ r.upstreamConfigured => r.originBranch.exists
        /\ (r.originBranch.commits \cup r.originHead.commits) \ {RemoteOnlyCommit}
              \subseteq SeqToSet(r.history) }

\* What git (or a hook) writes to stderr when a push fails.
PushStderr ==
    [ noUpstream |-> << "f", "a", "t", "a", "l", ":", " ", "T", "h", "e", " ", "c", "u",
            "r", "r", "e", "n", "t", " ", "b", "r", "a", "n", "c", "h", " ", "f", "e", "a",
            "t", " ", "h", "a", "s", " ", "n", "o", " ", "u", "p", "s", "t", "r", "e", "a",
            "m", " ", "b", "r", "a", "n", "c", "h", "." >>,
      noTracking |-> << "f", "a", "t", "a", "l", ":", " ", "n", "o", " ", "u", "p", "s",
            "t", "r", "e", "a", "m", " ", "c", "o", "n", "f", "i", "g", "u", "r", "e", "d",
            " ", "f", "o", "r", " ", "b", "r", "a", "n", "c", "h", " ", "f", "e", "a",
            "t" >>,
      rejected |-> << " ", "!", " ", "[", "r", "e", "j", "e", "c", "t", "e", "d", "]", " ",
            "f", "e", "a", "t", " ", "-", ">", " ", "f", "e", "a", "t", " ", "(", "f", "e",
            "t", "c", "h", " ", "f", "i", "r", "s", "t", ")" >>,
      auth |-> << "f", "a", "t", "a", "l", ":", " ", "A", "u", "t", "h", "e", "n", "t",
            "i", "c", "a", "t", "i", "o", "n", " ", "f", "a", "i", "l", "e", "d" >>,
      noDestination |-> << "f", "a", "t", "a", "l", ":", " ", "N", "o", " ", "c", "o", "n",
            "f", "i", "g", "u", "r", "e", "d", " ", "p", "u", "s", "h", " ", "d", "e", "s",
            "t", "i", "n", "a", "t", "i", "o", "n", "." >>,
      hookUpstream |-> << "r", "e", "m", "o", "t", "e", ":", " ", "u", "p", "s", "t", "r",
            "e", "a", "m", " ", "h", "o", "o", "k", " ", "d", "e", "c", "l", "i", "n", "e",
            "d" >>,
      noRefspec |-> << "e", "r", "r", "o", "r", ":", " ", "s", "r", "c", " ", "r", "e",
            "f", "s", "p", "e", "c", " ", "f", "e", "a", "t", " ", "d", "o", "e", "s", " ",
            "n", "o", "t", " ", "m", "a", "t", "c", "h", " ", "a", "n", "y" >> ]

\* The branch that is checked out.
CurrentBranch == << "f", "e", "a", "t" >>

\* What a git subprocess gives back: execFileAsync resolves with stdout, or
\* rejects with an error that carries stderr.
Ok(stdout) == [ok |-> TRUE, stdout |-> stdout, stderr |-> << >>]
Failed(stderr) == [ok |-> FALSE, stdout |-> << >>, stderr |-> stderr]

\* git rev-list --count <ref>..HEAD
RevListCount(r, ref) ==
    IF r.history = << >> \/ ~ref.exists
    THEN Failed(<< >>)
    ELSE Ok(DecimalText(Cardinality(SeqToSet(r.history) \ ref.commits)) \o << "\n" >>)

\* git rev-list --left-right --count <ref>...HEAD: "<behind>\t<ahead>\n"
RevListLeftRight(r, ref) ==
    IF r.history = << >> \/ ~ref.exists
    THEN Failed(<< >>)
    ELSE Ok(DecimalText(Cardinality(ref.commits \ SeqToSet(r.history))) \o << "\t" >>
            \o DecimalText(Cardinality(SeqToSet(r.history) \ ref.commits)) \o << "\n" >>)

\* @{upstream}: the tracking ref of the current branch
Upstream(r) == IF r.upstreamConfigured THEN r.originBranch ELSE NoRef

\* git rev-parse --abbrev-ref HEAD
RevParseAbbrevRef(r) ==
    IF r.history = << >> THEN Failed(<< >>) ELSE Ok(CurrentBranch \o << "\n" >>)

\* git symbolic-ref --short refs/remotes/origin/HEAD
SymbolicRefOriginHead(r) ==
    IF r.originHead.exists THEN Ok(<< "o", "r", "i", "g", "i", "n", "/", "m", "a", "i",
      "n", "\n" >>)
    ELSE Failed(<< >>)

\* git log --max-count=<maxCount> --skip=<skip>: the commits of the page, newest
\* first; the command fails when HEAD has no commit yet.
GitLog(r, maxCount, skip) ==
    IF r.history = << >>
    THEN [ok |-> FALSE, commits |-> << >>]
    ELSE [ok |-> TRUE,
          commits |-> SubSeq(r.history, skip + 1,
                             IF skip + maxCount < Len(r.history)
                             THEN skip + maxCount ELSE Len(r.history))]

\* ------------------------------------------------------------------------
\* GitService.getLog
\* ------------------------------------------------------------------------

\* The subprocesses GitService and the branch-status handler start, and the
\* file system calls GitService makes, as they are recorded in a call's cmds.
Cmd ==
    [ revListUpstream |-> "git rev-list --count @{upstream}..HEAD",
      revParseAbbrevRef |-> "git rev-parse --abbrev-ref HEAD",
      revListOriginBranch |-> "git rev-list --count origin/<branch>..HEAD",
      symbolicRef |-> "git symbolic-ref --short refs/remotes/origin/HEAD",
      revListDefault |-> "git rev-list --count <default>..HEAD",
      log |-> "git log --max-count --skip",
      push |-> "git push",
      branchShowCurrent |-> "git branch --show-current",
      pushSetUpstream |-> "git push --set-upstream origin <branch>",
      revParseVerifyParent |-> "git rev-parse --verify HEAD~1",
      logSubject |-> "git log -1 --pretty=format:%s",
      logBody |-> "git log -1 --pretty=format:%b",
      resetSoft |-> "git reset --soft HEAD~1",
      leftRightUpstream |-> "git rev-list --left-right --count @{upstream}...HEAD",
      leftRightOriginBranch |-> "git rev-list --left-right --count origin/<branch>...HEAD",
      statusSb |-> "git status -sb",
      diffHead |-> "git diff --no-color --unified=2000 HEAD -- <filePath>",
      showHead |-> "git show HEAD:<filePath>",
      catFile |-> "git cat-file -e HEAD:<filePath>",
      checkoutHead |-> "git checkout HEAD -- <filePath>",
      revParseCommitParent |-> "git rev-parse --verify <commitHash>~1",
      diffCommit |-> "git diff --no-color --unified=2000 <commitHash>~1 <commitHash> -- <filePath>",
      showCommit |-> "git show <commitHash>:<filePath>",
      fsStat |-> "fs.promises.stat",
      fsReadFile |-> "fs.promises.readFile",
      fsExistsSync |-> "fs.existsSync",
      fsUnlinkSync |-> "fs.unlinkSync",
      configGetRemote |-> "git config --get branch.<oldBranch>.remote",
      lsRemoteHeads |-> "git ls-remote --heads origin <oldBranch>",
      branchMove |-> "git branch -m <oldBranch> <newBranch>",
      pushDelete |-> "git push <remoteName> --delete <oldBranch>",
      pushUpstream |-> "git push -u <remoteName> <newBranch>",
      remoteRenameBranch |-> "remoteGitService.renameBranch" ]

\* An ahead computation that, without a ref to compare with, counts every
\* commit as unpushed.
ComputeAheadCountAllUnpushed(r) ==
    IF RevListCount(r, Upstream(r)).ok
    THEN [aheadCount |-> ParseIntOr0(Trim(RevListCount(r, Upstream(r)).stdout)),
          cmds |-> << Cmd.revListUpstream >>]
    ELSE [aheadCount |-> Len(r.history), cmds |-> << Cmd.revListUpstream >>]

\* The nested try/catch of getLog: the ahead count and the commands issued.
ComputeAheadCount(r) ==
    LET t1 == RevListCount(r, Upstream(r))
        t2a == RevParseAbbrevRef(r)
        t2b == RevListCount(r, r.originBranch)
        t3a == SymbolicRefOriginHead(r)
        t3b == RevListCount(r, r.originHead)
        cmds2 == << Cmd.revListUpstream, Cmd.revParseAbbrevRef >>
                     \o (IF t2a.ok THEN << Cmd.revListOriginBranch >> ELSE << >>)
        cmds3 == cmds2 \o << Cmd.symbolicRef >>
                     \o (IF t3a.ok THEN << Cmd.revListDefault >> ELSE << >>)
    IN  IF t1.ok
        THEN [aheadCount |-> ParseIntOr0(Trim(t1.stdout)), cmds |-> << Cmd.revListUpstream >>]
        ELSE IF t2a.ok /\ t2b.ok
        THEN [aheadCount |-> ParseIntOr0(Trim(t2b.stdout)), cmds |-> cmds2]
        ELSE IF t3a.ok /\ t3b.ok
        THEN [aheadCount |-> ParseIntOr0(Trim(t3b.stdout)), cmds |-> cmds3]
        ELSE [aheadCount |-> 0, cmds |-> cmds3]

\* A getLog that takes a known ahead count of 0 for a missing one
\* (knownAheadCount || -1).
getLogZeroIsMissing(r, maxCount, skip, knownAheadCount) ==
    LET known == IF knownAheadCount = None \/ knownAheadCount = Some(0)
                 THEN 0 - 1 ELSE knownAheadCount[1]
        ahead == IF known < 0 THEN ComputeAheadCount(r)
                 ELSE [aheadCount |-> known, cmds |-> << >>]
        page == GitLog(r, maxCount, skip)
    IN  IF ~page.ok
        THEN [ok |-> FALSE, error |-> "git log failed", commits |-> << >>,
              aheadCount |-> ahead.aheadCount, cmds |-> ahead.cmds \o << Cmd.log >>]
        ELSE [ok |-> TRUE, error |-> Undefined,
              commits |-> [i \in 1..Len(page.commits) |->
                              [hash |-> page.commits[i],
                               isPushed |-> skip + (i - 1) >= ahead.aheadCount]],
              aheadCount |-> ahead.aheadCount,
              cmds |-> ahead.cmds \o << Cmd.log >>]

\* getLog(taskPath, maxCount, skip, knownAheadCount): what it returns or throws,
\* and the commands it ran. knownAheadCount is None when the caller leaves it out.
getLog(r, maxCount, skip, knownAheadCount) ==
    LET known == IF knownAheadCount = None THEN 0 - 1 ELSE knownAheadCount[1]
        ahead == IF known < 0 THEN ComputeAheadCount(r)
                 ELSE [aheadCount |-> known, cmds |-> << >>]
        page == GitLog(r, maxCount, skip)
    IN  IF ~page.ok
        THEN [ok |-> FALSE, error |-> "git log failed", commits |-> << >>,
              aheadCount |-> ahead.aheadCount, cmds |-> ahead.cmds \o << Cmd.log >>]
        ELSE [ok |-> TRUE, error |-> Undefined,
              commits |-> [i \in 1..Len(page.commits) |->
                              [hash |-> page.commits[i],
                               isPushed |-> skip + (i - 1) >= ahead.aheadCount]],
              aheadCount |-> ahead.aheadCount,
              cmds |-> ahead.cmds \o << Cmd.log >>]

\* A call of the backend: the operation, its arguments, the repository it
\* found, the commands it has run, and what it returned.
Idle == [op |-> "none", args |-> << >>, before |-> NoRef, after |-> NoRef,
         cmds |-> << >>, pc |-> "done", result |-> NoEntry]

\* getLog called through 'git:get-log'
GetLog(maxCount, skip, knownAheadCount) ==
    /\ call.pc = "done"
    /\ LET res == getLog(repo, maxCount, skip, knownAheadCount)
       IN  call' = [op |-> "getLog",
                    args |-> << maxCount, skip, knownAheadCount >>,
                    before |-> repo, after |-> repo, cmds |-> res.cmds, pc |-> "done",
                    result |-> res]
    /\ UNCHANGED << rendererVars, repo, commitList, watchVars, fileVars >>

\* ------------------------------------------------------------------------
\* GitService.push
\* ------------------------------------------------------------------------

\* What can make a push fail, with the text git (or a hook, or the OS) writes to
\* stderr for it. "spawn" is a failure that carries no stderr at all.
PushFailure(kind, stderr) == [kind |-> kind, stderr |-> stderr]
NoFault == PushFailure("none", << >>)
\* Failures that do not depend on the repository: they may hit any push.
PushFaults ==
    { PushFailure("auth", PushStderr.auth),
      PushFailure("hook", PushStderr.hookUpstream),
      PushFailure("no-upstream", PushStderr.noTracking),
      PushFailure("spawn", << >>) }

RemoteIsAhead(r) == RemoteOnlyCommit \in r.originBranch.commits

Pushed(r) == [r EXCEPT !.originBranch = Ref(SeqToSet(r.history))]

\* git push: the failure (NoFault: it succeeded) and the repository afterwards
PlainPush(r, fault) ==
    LET failure ==
            IF fault # NoFault THEN fault
            ELSE IF ~r.hasOrigin THEN PushFailure("no-destination", PushStderr.noDestination)
            ELSE IF ~r.upstreamConfigured THEN PushFailure("no-upstream", PushStderr.noUpstream)
            ELSE IF RemoteIsAhead(r) THEN PushFailure("rejected", PushStderr.rejected)
            ELSE NoFault
    IN  [failure |-> failure, repo |-> IF failure = NoFault THEN Pushed(r) ELSE r]

\* git push --set-upstream origin <branch>
SetUpstreamPush(r, fault) ==
    LET failure ==
            IF fault # NoFault THEN fault
            ELSE IF ~r.hasOrigin THEN PushFailure("no-destination", PushStderr.noDestination)
            ELSE IF r.history = << >> THEN PushFailure("no-refspec", PushStderr.noRefspec)
            ELSE IF RemoteIsAhead(r) THEN PushFailure("rejected", PushStderr.rejected)
            ELSE NoFault
    IN  [failure |-> failure,
         repo |-> IF failure = NoFault
                  THEN [Pushed(r) EXCEPT !.upstreamConfigured = TRUE] ELSE r]

\* A push that answers every failure with the upstream-setting retry.
NeedsUpstreamRetryOnAnyFailure(stderr) == TRUE

\* push's test of the first push's stderr
NeedsUpstreamRetry(stderr) ==
    \/ Includes(stderr, << "h", "a", "s", " ", "n", "o", " ", "u", "p", "s", "t", "r", "e",
                            "a", "m", " ", "b", "r", "a", "n", "c", "h" >>)
    \/ Includes(stderr, << "n", "o", " ", "u", "p", "s", "t", "r", "e", "a", "m", " ", "c",
                            "o", "n", "f", "i", "g", "u", "r", "e", "d" >>)

\* push(taskPath); fault1 and fault2 are what befalls its first and second push.
Push(fault1, fault2) ==
    /\ call.pc = "done"
    /\ LET first == PlainPush(repo, fault1)
           retry == SetUpstreamPush(repo, fault2)
           record(cmds, result) ==
               [op |-> "push", args |-> << >>, before |-> repo, after |-> repo',
                cmds |-> cmds, pc |-> "done", result |-> result]
       IN  IF first.failure = NoFault
           THEN /\ repo' = first.repo
                /\ call' = record(<< Cmd.push >>, [ok |-> TRUE, first |-> NoFault])
           ELSE IF NeedsUpstreamRetry(first.failure.stderr)
           THEN /\ repo' = retry.repo
                /\ call' = record(<< Cmd.push, Cmd.branchShowCurrent, Cmd.pushSetUpstream >>,
                                  [ok |-> retry.failure = NoFault,
                                   first |-> first.failure,
                                   branch |-> Trim(CurrentBranch \o << "\n" >>),
                                   error |-> retry.failure])
           ELSE /\ repo' = repo
                /\ call' = record(<< Cmd.push >>,
                                  [ok |-> FALSE, first |-> first.failure,
                                   error |-> first.failure])
    /\ UNCHANGED << rendererVars, commitList, watchVars, fileVars >>

\* ------------------------------------------------------------------------
\* GitService.softResetLastCommit
\* ------------------------------------------------------------------------

\* The messages of the errors GitService throws itself.
Err ==
    [ initialCommit |-> "Cannot undo the initial commit",
      alreadyPushed |-> "Cannot undo a commit that has already been pushed",
      outsideWorktree |-> << "F", "i", "l", "e", " ", "p", "a", "t", "h", " ", "i", "s",
            " ", "o", "u", "t", "s", "i", "d", "e", " ", "t", "h", "e", " ", "w", "o", "r",
            "k", "t", "r", "e", "e" >>,
      failedToRevert |-> << "F", "a", "i", "l", "e", "d", " ", "t", "o", " ", "r", "e",
            "v", "e", "r", "t", " ", "f", "i", "l", "e", ":", " " >> ]

\* The precondition checks without the already-pushed guard.
SoftResetGuardParentOnly(r) ==
    LET log == getLog(r, 1, 0, None)
    IN  IF Len(r.history) < 2
        THEN [error |-> Err.initialCommit, cmds |-> << Cmd.revParseVerifyParent >>]
        ELSE [error |-> Undefined, cmds |-> << Cmd.revParseVerifyParent >> \o log.cmds]

\* The two precondition checks: the error thrown (Undefined: none) and the
\* commands run for them.
SoftResetGuard(r) ==
    LET log == getLog(r, 1, 0, None)
    IN  IF Len(r.history) < 2
        THEN [error |-> Err.initialCommit, cmds |-> << Cmd.revParseVerifyParent >>]
        ELSE IF ~log.ok
        THEN [error |-> log.error, cmds |-> << Cmd.revParseVerifyParent >> \o log.cmds]
        ELSE IF Len(log.commits) > 0 /\ log.commits[1].isPushed
        THEN [error |-> Err.alreadyPushed, cmds |-> << Cmd.revParseVerifyParent >> \o log.cmds]
        ELSE [error |-> Undefined, cmds |-> << Cmd.revParseVerifyParent >> \o log.cmds]

\* softResetLastCommit up to the point where it reads the commit message
SoftResetChecks ==
    /\ call.pc = "done"
    /\ LET guard == SoftResetGuard(repo)
       IN  call' = IF guard.error # Undefined
                   THEN [op |-> "softReset", args |-> << >>, before |-> repo,
                         after |-> repo, cmds |-> guard.cmds, pc |-> "done",
                         result |-> [ok |-> FALSE, error |-> guard.error]]
                   ELSE [op |-> "softReset", args |-> << >>, before |-> repo,
                         after |-> repo,
                         cmds |-> guard.cmds \o << Cmd.logSubject, Cmd.logBody >>,
                         pc |-> "reset",
                         result |-> [ok |-> FALSE, error |-> Undefined,
                                     subject |-> repo.history[1]]]
    /\ UNCHANGED << rendererVars, repo, commitList, watchVars, fileVars >>

\* ... and its git reset --soft HEAD~1
SoftResetRuns ==
    /\ call.op = "softReset" /\ call.pc = "reset"
    /\ IF Len(repo.history) >= 2
       THEN /\ repo' = [repo EXCEPT !.history = Tail(@)]
            /\ call' = [call EXCEPT !.pc = "done",
                                    !.after = repo',
                                    !.cmds = @ \o << Cmd.resetSoft >>,
                                    !.result = [ok |-> TRUE, error |-> Undefined,
                                                subject |-> call.result.subject]]
       ELSE /\ repo' = repo
            /\ call' = [call EXCEPT !.pc = "done",
                                    !.after = repo,
                                    !.cmds = @ \o << Cmd.resetSoft >>,
                                    !.result = [ok |-> FALSE, error |-> "git reset failed",
                                                subject |-> call.result.subject]]
    /\ UNCHANGED << rendererVars, commitList, watchVars, fileVars >>

\* ------------------------------------------------------------------------
\* 'git:get-branch-status': ahead/behind
\* ------------------------------------------------------------------------

\* s.split(/\s+/)
RECURSIVE SplitWs(_)
SplitWs(s) ==
    IF \A i \in 1..Len(s) : s[i] \notin WhiteSpace
    THEN << s >>
    ELSE LET i == CHOOSE k \in 1..Len(s) :
                     s[k] \in WhiteSpace /\ \A j \in 1..(k - 1) : s[j] \notin WhiteSpace
         IN  << SubSeq(s, 1, i - 1) >> \o SplitWs(TrimStart(SubSeq(s, i + 1, Len(s))))

\* line.match(/<word>\s+(\d+)/): the number of the first match, None without one
NumberAfter(line, word) ==
    LET after(i) == SubSeq(line, i + Len(word), Len(line))
        hits == { i \in 1..(Len(line) - Len(word) + 1) :
                    /\ SubSeq(line, i, i + Len(word) - 1) = word
                    /\ after(i) # << >>
                    /\ after(i)[1] \in WhiteSpace
                    /\ ParseInt10(after(i)) # None }
    IN  IF hits = {} THEN None
        ELSE ParseInt10(after(CHOOSE i \in hits : \A j \in hits : i <= j))

\* The first line of git status -sb, and the words the handler looks for in it.
StatusText ==
    [ noCommits |-> << "#", "#", " ", "N", "o", " ", "c", "o", "m", "m", "i", "t", "s",
            " ", "y", "e", "t", " ", "o", "n", " ", "f", "e", "a", "t" >>,
      branch |-> << "#", "#", " ", "f", "e", "a", "t" >>,
      tracking |-> << ".", ".", ".", "o", "r", "i", "g", "i", "n", "/", "f", "e", "a",
            "t" >>,
      wordAhead |-> << "a", "h", "e", "a", "d" >>,
      wordBehind |-> << "b", "e", "h", "i", "n", "d" >> ]

\* git status -sb: its first line names the branch and, when the branch tracks
\* a ref it differs from, "[ahead a, behind b]".
GitStatusSb(r) ==
    LET a == Cardinality(SeqToSet(r.history) \ Upstream(r).commits)
        b == Cardinality(Upstream(r).commits \ SeqToSet(r.history))
        aheadText == StatusText.wordAhead \o << " " >> \o DecimalText(a)
        behindText == StatusText.wordBehind \o << " " >> \o DecimalText(b)
        counts == IF a > 0 /\ b > 0 THEN aheadText \o << ",", " " >> \o behindText
                  ELSE IF a > 0 THEN aheadText ELSE behindText
    IN  IF r.history = << >> THEN Ok(StatusText.noCommits \o << "\n" >>)
        ELSE IF ~Upstream(r).exists THEN Ok(StatusText.branch \o << "\n" >>)
        ELSE IF a = 0 /\ b = 0 THEN Ok(StatusText.branch \o StatusText.tracking \o << "\n" >>)
        ELSE Ok(StatusText.branch \o StatusText.tracking \o << " ",
          "[" >> \o counts \o << "]", "\n" >>)

\* "<behind> <ahead>" of rev-list --left-right --count
LeftRightCounts(stdout) ==
    LET parts == SplitWs(Trim(stdout))
    IN  IF Len(parts) >= 2
        THEN [behind |-> ParseIntOr0(parts[1]), ahead |-> ParseIntOr0(parts[2])]
        ELSE [behind |-> 0, ahead |-> 0]

\* The nested try/catch of the handler: ahead, behind and the commands issued.
BranchAheadBehind(r) ==
    LET t1 == RevListLeftRight(r, Upstream(r))
        t2 == RevListLeftRight(r, r.originBranch)
        t3 == GitStatusSb(r)
        line == Split(t3.stdout, "\n")[1]
        m == NumberAfter(line, StatusText.wordAhead)
        n == NumberAfter(line, StatusText.wordBehind)
    IN  IF t1.ok
        THEN [ahead |-> LeftRightCounts(t1.stdout).ahead,
              behind |-> LeftRightCounts(t1.stdout).behind,
              cmds |-> << Cmd.leftRightUpstream >>]
        ELSE IF t2.ok
        THEN [ahead |-> LeftRightCounts(t2.stdout).ahead,
              behind |-> LeftRightCounts(t2.stdout).behind,
              cmds |-> << Cmd.leftRightUpstream, Cmd.leftRightOriginBranch >>]
        ELSE [ahead |-> IF t3.ok /\ m # None THEN m[1] ELSE 0,
              behind |-> IF t3.ok /\ n # None THEN n[1] ELSE 0,
              cmds |-> << Cmd.leftRightUpstream, Cmd.leftRightOriginBranch, Cmd.statusSb >>]

\* ipcMain.handle('git:get-branch-status') for a local working tree that exists
\* and is a git repository
GetBranchStatus ==
    /\ call.pc = "done"
    /\ LET counts == BranchAheadBehind(repo)
           ofDefault == RevListCount(repo, repo.originHead)
       IN  call' = [op |-> "branchStatus", args |-> << >>, before |-> repo,
                    after |-> repo,
                    cmds |-> << Cmd.branchShowCurrent >> \o counts.cmds,
                    pc |-> "done",
                    result |-> [ok |-> TRUE, error |-> Undefined,
                                branch |-> Trim(CurrentBranch \o << "\n" >>),
                                ahead |-> counts.ahead, behind |-> counts.behind,
                                aheadOfDefault |->
                                    IF ofDefault.ok THEN ParseIntOr0(Trim(ofDefault.stdout))
                                    ELSE 0]]
    /\ UNCHANGED << rendererVars, repo, commitList, watchVars, fileVars >>

\* ------------------------------------------------------------------------
\* CommitList: the paginated history view
\* ------------------------------------------------------------------------

\* commits, aheadCount and hasMore are its React state; the rest is history:
\* the initial load has run, a commit has landed since, and a further page was
\* appended after that.
EmptyCommitList ==
    [commits |-> << >>, aheadCount |-> None, hasMore |-> FALSE,
     loaded |-> FALSE, landed |-> FALSE, pagedSinceLanding |-> FALSE]

\* The effect on taskPath: the first page.
LoadInitial ==
    /\ call.pc = "done"
    /\ ~commitList.loaded
    /\ LET res == getLog(repo, PageSize, 0, None)
       IN  commitList' =
               IF res.ok
               THEN [commitList EXCEPT !.commits = res.commits,
                                       !.aheadCount = Some(res.aheadCount),
                                       !.hasMore = Len(res.commits) >= PageSize,
                                       !.loaded = TRUE]
               ELSE [commitList EXCEPT !.loaded = TRUE]
    /\ UNCHANGED << rendererVars, repo, call, watchVars, fileVars >>

\* loadMore
LoadMore ==
    /\ call.pc = "done"
    /\ commitList.loaded /\ commitList.hasMore
    /\ LET res == getLog(repo, PageSize, Len(commitList.commits), commitList.aheadCount)
       IN  commitList' =
               IF res.ok /\ Len(res.commits) > 0
               THEN [commitList EXCEPT !.commits = @ \o res.commits,
                                       !.hasMore = Len(res.commits) >= PageSize,
                                       !.pagedSinceLanding = commitList.landed]
               ELSE [commitList EXCEPT !.hasMore = FALSE]
    /\ UNCHANGED << rendererVars, repo, call, watchVars, fileVars >>

\* A commit lands on HEAD (the agent or the user commits in a terminal).
CommitLands ==
    /\ repo.nextCommit <= InitCommits + MaxNewCommits
    /\ repo' = [repo EXCEPT !.history = << repo.nextCommit >> \o @,
                            !.nextCommit = @ + 1]
    /\ commitList' = [commitList EXCEPT !.landed = commitList.loaded]
    /\ UNCHANGED << rendererVars, call, watchVars, fileVars >>

\* ------------------------------------------------------------------------
\* Paths: path.resolve, path.join and git's own reading of a path argument
\* ------------------------------------------------------------------------

\* The working tree every call below is made on (taskPath), and the one path
\* its commits record.
WorktreeRoot == << "/", "r" >>
TrackedFile == << "/", "r", "/", "f" >>
\* A file next to the working tree, in a directory whose name starts with the
\* working tree's name.
SiblingFile == << "/", "r", "2", "/", "f" >>

\* path.sep
Sep == "/"

\* The segments of a path with "", "." and ".." resolved; ".." at the root stays
\* at the root.
RECURSIVE NormalizeSegments(_, _)
NormalizeSegments(segs, acc) ==
    IF segs = << >> THEN acc
    ELSE LET s == Head(segs)
         IN  IF s = << >> \/ s = << "." >>
             THEN NormalizeSegments(Tail(segs), acc)
             ELSE IF s = << ".", "." >>
             THEN NormalizeSegments(Tail(segs),
                                    IF acc = << >> THEN acc
                                    ELSE SubSeq(acc, 1, Len(acc) - 1))
             ELSE NormalizeSegments(Tail(segs), Append(acc, s))

\* The absolute path made of segments.
RECURSIVE AbsoluteOf(_)
AbsoluteOf(segs) ==
    IF segs = << >> THEN << >>
    ELSE << Sep >> \o Head(segs) \o AbsoluteOf(Tail(segs))
AbsolutePath(segs) == IF segs = << >> THEN << Sep >> ELSE AbsoluteOf(segs)

IsAbsolute(p) == p # << >> /\ p[1] = Sep

\* path.resolve(taskPath, filePath): an absolute filePath stands for itself
PathResolve(base, filePath) ==
    AbsolutePath(NormalizeSegments(
        Split(IF IsAbsolute(filePath) THEN filePath
              ELSE base \o << Sep >> \o filePath, Sep), << >>))

\* path.join(taskPath, filePath): the two are glued, whatever filePath starts with
PathJoin(base, filePath) ==
    AbsolutePath(NormalizeSegments(Split(base \o << Sep >> \o filePath, Sep), << >>))

\* The test all three file operations start with, without the separator: a
\* bare prefix test of the resolved path.
IsOutsideWorktreeByPrefix(base, filePath) ==
    LET absPath == PathResolve(base, filePath)
        resolvedTaskPath == PathResolve(base, << >>)
    IN  ~StartsWith(absPath, resolvedTaskPath) /\ absPath # resolvedTaskPath

\* The test all three file operations start with:
\* !absPath.startsWith(resolvedTaskPath + path.sep) && absPath !== resolvedTaskPath
IsOutsideWorktree(base, filePath) ==
    LET absPath == PathResolve(base, filePath)
        resolvedTaskPath == PathResolve(base, << >>)
    IN  ~StartsWith(absPath, resolvedTaskPath \o << Sep >>) /\ absPath # resolvedTaskPath

\* Walking relative segments from the top of the working tree: None when a
\* ".." leaves it (git: "is outside repository").
RECURSIVE WalkWithin(_, _)
WalkWithin(segs, acc) ==
    IF segs = << >> THEN Some(acc)
    ELSE LET s == Head(segs)
         IN  IF s = << >> \/ s = << "." >> THEN WalkWithin(Tail(segs), acc)
             ELSE IF s = << ".", "." >>
             THEN IF acc = << >> THEN None
                  ELSE WalkWithin(Tail(segs), SubSeq(acc, 1, Len(acc) - 1))
             ELSE WalkWithin(Tail(segs), Append(acc, s))

RootSegments == NormalizeSegments(Split(WorktreeRoot, Sep), << >>)

\* The file a pathspec argument (-- <filePath>) of a git command run in the
\* working tree names: None when git refuses it as outside the repository.
PathspecLocation(filePath) ==
    IF IsAbsolute(filePath)
    THEN LET segs == NormalizeSegments(Split(filePath, Sep), << >>)
         IN  IF Len(segs) >= Len(RootSegments)
                /\ SubSeq(segs, 1, Len(RootSegments)) = RootSegments
             THEN Some(AbsolutePath(segs)) ELSE None
    ELSE LET walked == WalkWithin(Split(filePath, Sep), << >>)
         IN  IF walked = None THEN None
             ELSE Some(AbsolutePath(RootSegments \o walked[1]))

\* The file <rev>:<filePath> names: a path starting with ./ or ../ is read from
\* the working directory like a pathspec, any other is looked up in the tree
\* segment by segment, and an absolute one names nothing.
TreePathLocation(filePath) ==
    IF filePath = << >> \/ IsAbsolute(filePath) THEN None
    ELSE IF StartsWith(filePath, << ".", Sep >>) \/ StartsWith(filePath, << ".", ".", Sep >>)
    THEN PathspecLocation(filePath)
    ELSE LET segs == Split(filePath, Sep)
         IN  IF \E i \in 1..Len(segs) : segs[i] \in { << >>, << "." >>, << ".", "." >> }
             THEN None
             ELSE Some(AbsolutePath(RootSegments \o segs))

\* ------------------------------------------------------------------------
\* The working tree: the commits' record of one file, and the files on disk
\* ------------------------------------------------------------------------

\* The longest file, in lines, of the starting states.
MaxFileLines == 2

\* const MAX_UNTRACKED_DIFF_BYTES = 512 * 1024
MAX_UNTRACKED_DIFF_BYTES == 524288

\* The lines files are made of: a plain line, a line that starts with two
\* dashes and a space (a comment in SQL, Lua or Haskell), an empty line.
FileLineVocabulary == { << "a" >>, << "-", "-", " ", "x" >>, << >> }

SeqsUpTo(S, n) == UNION { [1..k -> S] : k \in 0..n }

\* Lines joined by newlines, with a final newline or without.
RECURSIVE JoinLines(_)
JoinLines(ls) ==
    IF ls = << >> THEN << >>
    ELSE IF Len(ls) = 1 THEN ls[1]
    ELSE ls[1] \o << "\n" >> \o JoinLines(Tail(ls))

\* A file git takes for binary: it holds a NUL byte.
BinaryContent == << "NUL", "a" >>
IsBinaryContent(c) == \E i \in 1..Len(c) : c[i] = "NUL"

TextContents ==
    { JoinLines(ls) \o (IF terminated THEN << "\n" >> ELSE << >>) :
        ls \in SeqsUpTo(FileLineVocabulary, MaxFileLines) \ { << >> },
        terminated \in BOOLEAN } \cup { << >> }
Contents == TextContents \cup { BinaryContent }

\* A path's entry in a commit: absent, or the committed content.
NoBlob == [exists |-> FALSE, content |-> << >>]
Blob(c) == [exists |-> TRUE, content |-> c]

\* A path on disk: absent, or a file with its content, the size stat reports
\* for it, and whether this process may read it. A file over the size cap is
\* given by its size and a short text standing for its content.
NoFile == [exists |-> FALSE, content |-> << >>, size |-> 0, readable |-> FALSE]
File(c) == [exists |-> TRUE, content |-> c, size |-> Len(c), readable |-> TRUE]

\* worktree.commits: TrackedFile's entry in each commit of HEAD, oldest first
\* (empty: no commit yet); worktree.disk: the files on disk.
FileAt(w, loc) == IF loc \in DOMAIN w.disk THEN w.disk[loc] ELSE NoFile
HasHead(w) == w.commits # << >>
HeadBlob(w) == IF HasHead(w) THEN w.commits[Len(w.commits)] ELSE NoBlob

Blobs == { NoBlob } \cup { Blob(c) : c \in Contents }
\* Histories of one commit, with any entry for the file, and of two commits,
\* with a few.
Histories ==
    { << >> } \cup { << h >> : h \in Blobs }
              \cup { << p, h >> :
                        p \in { NoBlob, Blob(<< "a", "\n" >>) },
                        h \in { NoBlob, Blob(<< "a", "\n" >>), Blob(BinaryContent),
                                 Blob(<< "-", "-", " ", "x", "\n", "a", "\n" >>) } }
\* The files that may be on disk where HEAD has h: none, the committed content
\* or another (any content where HEAD has none), a file over the size cap, a
\* file this process may not read.
DiskFilesFor(h) ==
    { NoFile,
      [File(<< "a", "\n", "a", "\n" >>) EXCEPT !.size = MAX_UNTRACKED_DIFF_BYTES + 1],
      [File(<< "a", "\n", "a", "\n" >>) EXCEPT !.readable = FALSE] } \cup
    { File(c) : c \in IF h.exists THEN { h.content, << "a", "\n", "a", "\n" >> }
                      ELSE Contents }
Worktrees ==
    UNION { { [commits |-> cs,
               disk |-> [loc \in { TrackedFile, SiblingFile } |->
                            IF loc = TrackedFile THEN f ELSE File(<< "a", "\n" >>)]] :
                f \in DiskFilesFor(IF cs = << >> THEN NoBlob ELSE cs[Len(cs)]) } :
            cs \in Histories }

\* ------------------------------------------------------------------------
\* What git prints for a diff
\* ------------------------------------------------------------------------

\* The lines git sees in a blob: each with its text and whether a newline ends it.
GitLines(content) ==
    IF content = << >> THEN << >>
    ELSE LET parts == Split(content, "\n")
             terminated == parts[Len(parts)] = << >>
             n == IF terminated THEN Len(parts) - 1 ELSE Len(parts)
         IN  [i \in 1..n |-> [text |-> parts[i], newline |-> i < n \/ terminated]]

\* The lines git diff prints around a hunk.
DiffHeader ==
    [ diffGitLine |-> << "d", "i", "f", "f", " ", "-", "-", "g", "i", "t", " ", "a", "/",
            "f", " ", "b", "/", "f", "\n" >>,
      deletedModeLine |-> << "d", "e", "l", "e", "t", "e", "d", " ", "f", "i", "l", "e",
            " ", "m", "o", "d", "e", " ", "1", "0", "0", "6", "4", "4", "\n" >>,
      newModeLine |-> << "n", "e", "w", " ", "f", "i", "l", "e", " ", "m", "o", "d", "e",
            " ", "1", "0", "0", "6", "4", "4", "\n" >>,
      indexLineDeleted |-> << "i", "n", "d", "e", "x", " ", "1", "1", "1", "1", "1", "1",
            "1", ".", ".", "0", "0", "0", "0", "0", "0", "0", "\n" >>,
      indexLineNew |-> << "i", "n", "d", "e", "x", " ", "0", "0", "0", "0", "0", "0", "0",
            ".", ".", "2", "2", "2", "2", "2", "2", "2", "\n" >>,
      indexLineModified |-> << "i", "n", "d", "e", "x", " ", "1", "1", "1", "1", "1", "1",
            "1", ".", ".", "2", "2", "2", "2", "2", "2", "2", " ", "1", "0", "0", "6", "4",
            "4", "\n" >>,
      oldFileLine |-> << "-", "-", "-", " ", "a", "/", "f", "\n" >>,
      newFileLine |-> << "+", "+", "+", " ", "b", "/", "f", "\n" >>,
      oldNullLine |-> << "-", "-", "-", " ", "/", "d", "e", "v", "/", "n", "u", "l", "l",
            "\n" >>,
      newNullLine |-> << "+", "+", "+", " ", "/", "d", "e", "v", "/", "n", "u", "l", "l",
            "\n" >>,
      binaryFilesDiffer |-> << "B", "i", "n", "a", "r", "y", " ", "f", "i", "l", "e", "s",
            " ", "a", "/", "f", " ", "a", "n", "d", " ", "b", "/", "f", " ", "d", "i", "f",
            "f", "e", "r", "\n" >>,
      noNewlineMarker |-> << "\\", " ", "N", "o", " ", "n", "e", "w", "l", "i", "n", "e",
            " ", "a", "t", " ", "e", "n", "d", " ", "o", "f", " ", "f", "i", "l", "e",
            "\n" >> ]

\* The lines of a hunk that carry one sign.
RECURSIVE HunkLines(_, _)
HunkLines(sign, ls) ==
    IF ls = << >> THEN << >>
    ELSE << sign >> \o ls[1].text \o << "\n" >>
         \o (IF ls[1].newline THEN << >> ELSE DiffHeader.noNewlineMarker)
         \o HunkLines(sign, Tail(ls))

RECURSIVE CommonPrefixLen(_, _)
CommonPrefixLen(a, b) ==
    IF a # << >> /\ b # << >> /\ Head(a) = Head(b)
    THEN 1 + CommonPrefixLen(Tail(a), Tail(b)) ELSE 0
Reverse(s) == [i \in 1..Len(s) |-> s[Len(s) + 1 - i]]

\* "<start>,<count>" of a hunk header
HunkRange(n) ==
    IF n = 0 THEN << "0", ",", "0" >> ELSE IF n = 1 THEN << "1" >> ELSE << "1",
      "," >> \o DecimalText(n)
HunkHeader(n, m) ==
    << "@", "@", " ", "-" >> \o HunkRange(n) \o << " ", "+" >> \o HunkRange(m) \o << " ",
      "@", "@", "\n" >>

\* git diff --no-color --unified=2000 of the path between two versions of it:
\* one hunk holding the whole file.
DiffText(old, new) ==
    IF (~old.exists /\ ~new.exists) \/ old = new THEN << >>
    ELSE IF (old.exists /\ IsBinaryContent(old.content))
            \/ (new.exists /\ IsBinaryContent(new.content))
    THEN DiffHeader.diffGitLine
         \o (IF ~new.exists THEN DiffHeader.deletedModeLine \o DiffHeader.indexLineDeleted
             ELSE IF ~old.exists THEN DiffHeader.newModeLine \o DiffHeader.indexLineNew
             ELSE DiffHeader.indexLineModified)
         \o DiffHeader.binaryFilesDiffer
    ELSE LET o == GitLines(old.content)
             n == GitLines(new.content)
         IN  IF ~new.exists
             THEN DiffHeader.diffGitLine \o DiffHeader.deletedModeLine \o DiffHeader.indexLineDeleted
                  \o (IF o = << >> THEN << >>
                      ELSE DiffHeader.oldFileLine \o DiffHeader.newNullLine \o HunkHeader(Len(o), 0)
                           \o HunkLines("-", o))
             ELSE IF ~old.exists
             THEN DiffHeader.diffGitLine \o DiffHeader.newModeLine \o DiffHeader.indexLineNew
                  \o (IF n = << >> THEN << >>
                      ELSE DiffHeader.oldNullLine \o DiffHeader.newFileLine \o HunkHeader(0, Len(n))
                           \o HunkLines("+", n))
             ELSE LET p == CommonPrefixLen(o, n)
                      oRest == SubSeq(o, p + 1, Len(o))
                      nRest == SubSeq(n, p + 1, Len(n))
                      s == CommonPrefixLen(Reverse(oRest), Reverse(nRest))
                  IN  DiffHeader.diffGitLine \o DiffHeader.indexLineModified \o DiffHeader.oldFileLine \o DiffHeader.newFileLine
                      \o HunkHeader(Len(o), Len(n))
                      \o HunkLines(" ", SubSeq(o, 1, p))
                      \o HunkLines("-", SubSeq(oRest, 1, Len(oRest) - s))
                      \o HunkLines("+", SubSeq(nRest, 1, Len(nRest) - s))
                      \o HunkLines(" ", SubSeq(oRest, Len(oRest) - s + 1, Len(oRest)))

\* git diff --no-color --unified=2000 HEAD -- <filePath>: fails without a HEAD
\* commit, for a path outside the repository, and for a changed file it may not
\* read; prints nothing for a path neither HEAD nor the index knows.
GitDiffHead(w, filePath) ==
    IF ~HasHead(w) \/ PathspecLocation(filePath) = None THEN Failed(<< "f", "a", "t", "a", "l" >>)
    ELSE IF PathspecLocation(filePath) # Some(TrackedFile) \/ ~HeadBlob(w).exists
    THEN Ok(<< >>)
    ELSE LET f == FileAt(w, TrackedFile)
         IN  IF f.exists /\ ~f.readable THEN Failed(<< "f", "a", "t", "a", "l" >>)
             ELSE Ok(DiffText(HeadBlob(w), IF f.exists THEN Blob(f.content) ELSE NoBlob))

\* The entry of <filePath> in commit number c (0: no such commit).
BlobIn(w, c, filePath) ==
    IF c \in 1..Len(w.commits) /\ TreePathLocation(filePath) = Some(TrackedFile)
    THEN w.commits[c] ELSE NoBlob

\* git show <commit>:<filePath>
GitShow(w, c, filePath) ==
    IF BlobIn(w, c, filePath).exists THEN Ok(BlobIn(w, c, filePath).content)
    ELSE Failed(<< "f", "a", "t", "a", "l" >>)

\* git cat-file -e HEAD:<filePath>
GitCatFileExists(w, filePath) ==
    IF BlobIn(w, Len(w.commits), filePath).exists THEN Ok(<< >>) ELSE Failed(<< "f", "a",
      "t", "a", "l" >>)

\* git diff --no-color --unified=2000 <commit>~1 <commit> -- <filePath>
GitDiffCommit(w, c, filePath) ==
    IF c \notin 2..Len(w.commits) \/ PathspecLocation(filePath) = None
    THEN Failed(<< "f", "a", "t", "a", "l" >>)
    ELSE IF PathspecLocation(filePath) # Some(TrackedFile) THEN Ok(<< >>)
    ELSE Ok(DiffText(w.commits[c - 1], w.commits[c]))

\* ------------------------------------------------------------------------
\* GitService.parseDiffLines
\* ------------------------------------------------------------------------

DIFF_HEADER_PREFIXES ==
    { << "d", "i", "f", "f", " " >>, << "i", "n", "d", "e", "x", " " >>, << "-", "-", "-",
      " " >>, << "+", "+", "+", " " >>, << "@", "@" >>,
      << "n", "e", "w", " ", "f", "i", "l", "e", " ", "m", "o", "d", "e" >>, << "o", "l",
        "d", " ", "f", "i", "l", "e", " ", "m", "o", "d", "e" >>, << "d", "e", "l", "e",
        "t", "e", "d", " ", "f", "i", "l", "e", " ", "m", "o", "d", "e" >>,
      << "s", "i", "m", "i", "l", "a", "r", "i", "t", "y", " ", "i", "n", "d", "e", "x" >>,
        << "r", "e", "n", "a", "m", "e", " ", "f", "r", "o", "m" >>, << "r", "e", "n", "a",
        "m", "e", " ", "t", "o" >>, << "B", "i", "n", "a", "r", "y", " ", "f", "i", "l",
        "e", "s" >> }

\* A DiffLine: left and right are None when the field is left out.
DiffLine(type, left, right) == [type |-> type, left |-> left, right |-> right]

\* One pass of the loop with a deletion that also fills the right side.
ParseLineDelOnBothSides(line) ==
    IF line = << >> THEN << >>
    ELSE IF \E p \in DIFF_HEADER_PREFIXES : StartsWith(line, p) THEN << >>
    ELSE LET prefix == line[1]
             content == Tail(line)
         IN  IF prefix = "\\" THEN << >>
             ELSE IF prefix = " " THEN << DiffLine("context", Some(content), Some(content)) >>
             ELSE IF prefix = "-" THEN << DiffLine("del", Some(content), Some(content)) >>
             ELSE IF prefix = "+" THEN << DiffLine("add", None, Some(content)) >>
             ELSE << DiffLine("context", Some(line), Some(line)) >>

\* One pass of the loop over linesRaw: what the line adds to result.
ParseLine(line) ==
    IF line = << >> THEN << >>
    ELSE IF \E p \in DIFF_HEADER_PREFIXES : StartsWith(line, p) THEN << >>
    ELSE LET prefix == line[1]
             content == Tail(line)
         IN  IF prefix = "\\" THEN << >>
             ELSE IF prefix = " " THEN << DiffLine("context", Some(content), Some(content)) >>
             ELSE IF prefix = "-" THEN << DiffLine("del", Some(content), None) >>
             ELSE IF prefix = "+" THEN << DiffLine("add", None, Some(content)) >>
             ELSE << DiffLine("context", Some(line), Some(line)) >>

RECURSIVE ParseLines(_)
ParseLines(linesRaw) ==
    IF linesRaw = << >> THEN << >>
    ELSE ParseLine(Head(linesRaw)) \o ParseLines(Tail(linesRaw))

parseDiffLines(out) ==
    LET result == ParseLines(Split(out, "\n"))
    IN  [lines |-> result,
         isBinary |-> result = << >> /\ Includes(out, << "B", "i", "n", "a", "r", "y", " ",
           "f", "i", "l", "e", "s" >>)]

\* ------------------------------------------------------------------------
\* GitService.getFileDiff, revertFile, getCommitFileDiff
\* ------------------------------------------------------------------------

\* readFileTextCapped(filePath, maxBytes): the text (None: null) and the file
\* system calls made.
readFileTextCapped(w, abs, maxBytes) ==
    LET f == FileAt(w, abs)
    IN  IF ~f.exists THEN [content |-> None, cmds |-> << Cmd.fsStat >>]
        ELSE IF f.size > maxBytes THEN [content |-> None, cmds |-> << Cmd.fsStat >>]
        ELSE IF ~f.readable THEN [content |-> None, cmds |-> << Cmd.fsStat, Cmd.fsReadFile >>]
        ELSE [content |-> Some(f.content), cmds |-> << Cmd.fsStat, Cmd.fsReadFile >>]

\* content.split('\n') with the empty pieces left out.
AddLinesNonEmpty(content) ==
    LET parts == SelectSeq(Split(content, "\n"), LAMBDA l : l # << >>)
    IN  [i \in 1..Len(parts) |-> DiffLine("add", None, Some(parts[i]))]

\* content.split('\n').map((l) => ({ right: l, type: 'add' }))
AddLines(content) ==
    LET parts == Split(content, "\n")
    IN  [i \in 1..Len(parts) |-> DiffLine("add", None, Some(parts[i]))]

\* prev.split('\n').map((l) => ({ left: l, type: 'del' }))
DelLines(content) ==
    LET parts == Split(content, "\n")
    IN  [i \in 1..Len(parts) |-> DiffLine("del", Some(parts[i]), None)]

\* What a file operation gives back: its value or the error it throws, and the
\* commands and file system calls it made, in order.
Returned(lines, isBinary, cmds) ==
    [ok |-> TRUE, error |-> << >>, lines |-> lines, isBinary |-> isBinary, cmds |-> cmds]
Thrown(error, cmds) ==
    [ok |-> FALSE, error |-> error, lines |-> << >>, isBinary |-> FALSE, cmds |-> cmds]

\* The fallback both catch paths of getFileDiff share: the file as it is on
\* disk, all additions; failing that, the HEAD version, all deletions; failing
\* that, nothing.
DiffFallback(w, filePath, cmds) ==
    LET read == readFileTextCapped(w, PathJoin(WorktreeRoot, filePath),
                                   MAX_UNTRACKED_DIFF_BYTES)
        show == GitShow(w, Len(w.commits), filePath)
    IN  IF read.content # None
        THEN Returned(AddLines(read.content[1]), FALSE, cmds \o read.cmds)
        ELSE IF show.ok
        THEN Returned(DelLines(show.stdout), FALSE, cmds \o read.cmds \o << Cmd.showHead >>)
        ELSE Returned(<< >>, FALSE, cmds \o read.cmds \o << Cmd.showHead >>)

\* getFileDiff once git diff has printed and the parser has run: the binary
\* flag, the fallback for an empty result, or the parsed lines.
DiffParsed(w, filePath, p) ==
    IF p.isBinary THEN Returned(<< >>, TRUE, << Cmd.diffHead >>)
    ELSE IF p.lines = << >> THEN DiffFallback(w, filePath, << Cmd.diffHead >>)
    ELSE Returned(p.lines, FALSE, << Cmd.diffHead >>)

getFileDiff(w, filePath) ==
    IF IsOutsideWorktree(WorktreeRoot, filePath)
    THEN Thrown(Err.outsideWorktree, << >>)
    ELSE LET diff == GitDiffHead(w, filePath)
         IN  IF ~diff.ok THEN DiffFallback(w, filePath, << Cmd.diffHead >>)
             ELSE DiffParsed(w, filePath, parseDiffLines(diff.stdout))

CheckoutLocked ==
    << "U", "n", "a", "b", "l", "e", " ", "t", "o", " ", "c", "r", "e", "a", "t", "e",
       " ", "i", "n", "d", "e", "x", ".", "l", "o", "c", "k", ":", " ", "F", "i", "l",
       "e", " ", "e", "x", "i", "s", "t", "s", "." >>

\* What revertFile gives back, and the working tree it leaves.
Reverted(w, cmds) ==
    [ok |-> TRUE, error |-> << >>, action |-> "reverted", cmds |-> cmds, worktree |-> w]
RevertThrown(w, error, cmds) ==
    [ok |-> FALSE, error |-> error, action |-> "none", cmds |-> cmds, worktree |-> w]

\* fs.unlinkSync(absPath)
Unlinked(w, abs) ==
    IF abs \in DOMAIN w.disk THEN [w EXCEPT !.disk[abs] = NoFile] ELSE w

\* git checkout HEAD -- <filePath>, when it succeeds: the file is as in HEAD
CheckedOut(w) == [w EXCEPT !.disk[TrackedFile] = File(HeadBlob(w).content)]

\* A revertFile that answers a failed checkout by removing the file.
revertFileUnlinkingOnFailure(w, filePath, checkoutError, catFileFails) ==
    LET absPath == PathResolve(WorktreeRoot, filePath)
    IN  IF IsOutsideWorktree(WorktreeRoot, filePath)
        THEN RevertThrown(w, Err.outsideWorktree, << >>)
        ELSE IF catFileFails \/ ~GitCatFileExists(w, filePath).ok
        THEN IF FileAt(w, absPath).exists
             THEN Reverted(Unlinked(w, absPath), << Cmd.catFile, Cmd.fsExistsSync,
               Cmd.fsUnlinkSync >>)
             ELSE Reverted(w, << Cmd.catFile, Cmd.fsExistsSync >>)
        ELSE IF checkoutError # << >>
        THEN RevertThrown(Unlinked(w, absPath), Err.failedToRevert \o checkoutError,
                          << Cmd.catFile, Cmd.checkoutHead, Cmd.fsUnlinkSync >>)
        ELSE Reverted(CheckedOut(w), << Cmd.catFile, Cmd.checkoutHead >>)

\* revertFile(taskPath, filePath); catFileFails: git cat-file fails for a reason
\* of its own (git cannot be started, the repository cannot be read), whatever
\* HEAD holds; checkoutError is the message git checkout
\* fails with (empty: it succeeds).
revertFile(w, filePath, checkoutError, catFileFails) ==
    LET absPath == PathResolve(WorktreeRoot, filePath)
    IN  IF IsOutsideWorktree(WorktreeRoot, filePath)
        THEN RevertThrown(w, Err.outsideWorktree, << >>)
        ELSE IF catFileFails \/ ~GitCatFileExists(w, filePath).ok
        THEN IF FileAt(w, absPath).exists
             THEN Reverted(Unlinked(w, absPath), << Cmd.catFile, Cmd.fsExistsSync,
               Cmd.fsUnlinkSync >>)
             ELSE Reverted(w, << Cmd.catFile, Cmd.fsExistsSync >>)
        ELSE IF checkoutError # << >>
        THEN RevertThrown(w, Err.failedToRevert \o checkoutError,
                          << Cmd.catFile, Cmd.checkoutHead >>)
        ELSE Reverted(CheckedOut(w), << Cmd.catFile, Cmd.checkoutHead >>)

\* getCommitFileDiff once git diff has printed and the parser has run.
CommitDiffParsed(p) ==
    IF p.isBinary
    THEN Returned(<< >>, TRUE, << Cmd.revParseCommitParent, Cmd.diffCommit >>)
    ELSE Returned(p.lines, FALSE, << Cmd.revParseCommitParent, Cmd.diffCommit >>)

\* getCommitFileDiff(taskPath, commitHash, filePath); commits are numbered from
\* the oldest, 1, and 0 is a hash no commit has.
getCommitFileDiff(w, commitHash, filePath) ==
    IF IsOutsideWorktree(WorktreeRoot, filePath)
    THEN Thrown(Err.outsideWorktree, << >>)
    ELSE IF commitHash \in 2..Len(w.commits)
    THEN LET diff == GitDiffCommit(w, commitHash, filePath)
         IN  IF ~diff.ok
             THEN Thrown(diff.stderr, << Cmd.revParseCommitParent, Cmd.diffCommit >>)
             ELSE CommitDiffParsed(parseDiffLines(diff.stdout))
    ELSE LET show == GitShow(w, commitHash, filePath)
         IN  IF show.ok
             THEN Returned(AddLines(show.stdout), FALSE,
                           << Cmd.revParseCommitParent, Cmd.showCommit >>)
             ELSE Returned(<< >>, FALSE, << Cmd.revParseCommitParent, Cmd.showCommit >>)

\* The file paths the renderer's calls are made with: the tracked file by its
\* relative and by its absolute path, a path that leaves the working tree and
\* comes back, the sibling's file, a file elsewhere, the parent directory.
FilePaths ==
    { << "f" >>, << "/", "r", "/", "f" >>, << ".", ".", "/", "r", "/", "f" >>, << ".", ".",
      "/", "r", "2", "/", "f" >>, << "/", "x" >>, << ".", "." >> }

\* getFileDiff called through 'git:get-file-diff'
GetFileDiff(filePath) ==
    /\ call.pc = "done"
    /\ \E res \in { getFileDiff(worktree, filePath) } :
           call' = [op |-> "getFileDiff", args |-> << filePath >>,
                    before |-> worktree, after |-> worktree, cmds |-> res.cmds,
                    pc |-> "done", result |-> res]
    /\ UNCHANGED << rendererVars, worktree, diffOutput, parsed, repo, commitList, watchVars >>

\* revertFile called through 'git:revert-file'
RevertFile(filePath, checkoutError, catFileFails) ==
    /\ call.pc = "done"
    /\ \E res \in { revertFile(worktree, filePath, checkoutError, catFileFails) } :
           /\ worktree' = res.worktree
           /\ call' = [op |-> "revertFile", args |-> << filePath, checkoutError, catFileFails >>,
                       before |-> worktree, after |-> res.worktree, cmds |-> res.cmds,
                       pc |-> "done", result |-> res]
    /\ UNCHANGED << rendererVars, diffOutput, parsed, repo, commitList, watchVars >>

\* getCommitFileDiff called through 'git:get-commit-file-diff'
GetCommitFileDiff(commitHash, filePath) ==
    /\ call.pc = "done"
    /\ \E res \in { getCommitFileDiff(worktree, commitHash, filePath) } :
           call' = [op |-> "getCommitFileDiff", args |-> << commitHash, filePath >>,
                    before |-> worktree, after |-> worktree, cmds |-> res.cmds,
                    pc |-> "done", result |-> res]
    /\ UNCHANGED << rendererVars, worktree, diffOutput, parsed, repo, commitList, watchVars >>

\* ------------------------------------------------------------------------
\* The parser on its own
\* ------------------------------------------------------------------------

\* The longest diff text, in lines, and the longest raw text, in characters.
MaxDiffLines == 2
MaxRawLen == 3

\* Lines as git diff prints them, and lines it never prints.
DiffLineVocabulary ==
    { << >>, << " ", "a" >>, << "-", "a" >>, << "+", "a" >>, << "a" >>, << " " >>,
      << "-" >>, << "+" >>,
      << "-", "-", "-", " ", "x" >>, << "+", "+", "+", " ", "x" >>, << "\\", " ", "N", "o",
        " ", "n", "e", "w", "l", "i", "n", "e", " ", "a", "t", " ", "e", "n", "d", " ",
        "o", "f", " ", "f", "i", "l", "e" >>,
      << "@", "@", " ", "-", "1", " ", "+", "1", " ", "@", "@" >>, << "-", "-", "-", " ",
        "a", "/", "f" >>, << "+", "+", "+", " ", "b", "/", "f" >>, << "d", "i", "f", "f",
        " ", "-", "-", "g", "i", "t", " ", "a", "/", "f", " ", "b", "/", "f" >>,
      << "i", "n", "d", "e", "x", " ", "1", "1", "1", "1", "1", "1", "1", ".", ".", "2",
        "2", "2", "2", "2", "2", "2", " ", "1", "0", "0", "6", "4", "4" >>, << "B", "i",
        "n", "a", "r", "y", " ", "f", "i", "l", "e", "s", " ", "a", "/", "f", " ", "a",
        "n", "d", " ", "b", "/", "f", " ", "d", "i", "f", "f", "e", "r" >>,
      << "d", "e", "l", "e", "t", "e", "d", " ", "f", "i", "l", "e", " ", "m", "o", "d",
        "e", " ", "1", "0", "0", "6", "4", "4" >>, << "n", "e", "w", " ", "f", "i", "l",
        "e", " ", "m", "o", "d", "e", " ", "1", "0", "0", "6", "4", "4" >>,
      << "o", "l", "d", " ", "f", "i", "l", "e", " ", "m", "o", "d", "e", " ", "1", "0",
        "0", "6", "4", "4" >>, << "s", "i", "m", "i", "l", "a", "r", "i", "t", "y", " ",
        "i", "n", "d", "e", "x", " ", "9", "0", "%" >>,
      << "r", "e", "n", "a", "m", "e", " ", "f", "r", "o", "m", " ", "f" >>, << "r", "e",
        "n", "a", "m", "e", " ", "t", "o", " ", "g" >> }

DiffTexts ==
    { JoinLines(ls) : ls \in SeqsUpTo(DiffLineVocabulary, MaxDiffLines) }
        \cup SeqsUpTo({ " ", "-", "+", "\\", "\n", "a" }, MaxRawLen)

NotParsed == [lines |-> << >>, isBinary |-> FALSE, done |-> FALSE]

\* parseDiffLines applied to the text at hand
ParseDiff ==
    /\ ~parsed.done
    /\ \E p \in { parseDiffLines(diffOutput) } :
           parsed' = [lines |-> p.lines, isBinary |-> p.isBinary, done |-> TRUE]
    /\ UNCHANGED << rendererVars, diffOutput, worktree, gitVars, watchVars >>

\* No component of the renderer is at work and nothing is in flight.
IdleRenderer ==
    /\ renderer = NoEntry
    /\ ipc = << >>

\* No file operation is under way and no diff text is at hand.
IdleFiles ==
    /\ worktree = [commits |-> << >>,
                   disk |-> [loc \in { TrackedFile, SiblingFile } |-> NoFile]]
    /\ diffOutput = << >>
    /\ parsed = NotParsed

\* ------------------------------------------------------------------------
\* The local backend at work on one repository
\* ------------------------------------------------------------------------

IdleGit ==
    /\ repo = [history |-> << >>, nextCommit |-> 1, hasOrigin |-> FALSE,
               upstreamConfigured |-> FALSE, originBranch |-> NoRef,
               originHead |-> NoRef]
    /\ call = Idle
    /\ commitList = EmptyCommitList

InitGit ==
    /\ repo \in Repos
    /\ call = Idle
    /\ commitList = EmptyCommitList
    /\ IdleWatch
    /\ IdleFiles
    /\ IdleRenderer

LogInputs ==
    { << maxCount, skip, known >> :
        maxCount \in {1, PageSize},
        skip \in 0..InitCommits,
        known \in {None} \cup { Some(k) : k \in (0 - 1)..InitCommits } }

\* push, while commits land
NextPush ==
    \/ \E fault1 \in {NoFault} \cup PushFaults,
          fault2 \in {NoFault, PushFailure("auth", PushStderr.auth)} :
            Push(fault1, fault2)
    \/ CommitLands

SpecPush == InitGit /\ [][NextPush]_vars

\* softResetLastCommit, while commits land
NextReset ==
    \/ SoftResetChecks
    \/ SoftResetRuns
    \/ CommitLands

SpecReset == InitGit /\ [][NextReset]_vars

\* getLog, the branch status and the history view, while commits land
NextHistory ==
    \/ \E in \in LogInputs : GetLog(in[1], in[2], in[3])
    \/ GetBranchStatus
    \/ LoadInitial
    \/ LoadMore
    \/ CommitLands

SpecHistory == InitGit /\ [][NextHistory]_vars

InitWatchOnly == InitWatch /\ IdleGit /\ IdleFiles /\ IdleRenderer
SpecWatch == InitWatchOnly /\ [][NextWatch]_vars

\* The file operations on one working tree
InitFiles ==
    /\ worktree \in Worktrees
    /\ diffOutput = << >>
    /\ parsed = NotParsed
    /\ IdleGit
    /\ IdleRenderer
    /\ IdleWatch

NextFiles ==
    \/ \E filePath \in FilePaths : GetFileDiff(filePath)
    \/ \E filePath \in FilePaths, checkoutError \in { << >>, CheckoutLocked },
          catFileFails \in BOOLEAN :
          RevertFile(filePath, checkoutError, catFileFails)
    \/ \E commitHash \in 0..2, filePath \in { p \in FilePaths : ~IsAbsolute(p) } :
          GetCommitFileDiff(commitHash, filePath)

SpecFiles == InitFiles /\ [][NextFiles]_vars

\* The parser on every diff text of the bounded sets
InitParser ==
    /\ diffOutput \in DiffTexts
    /\ parsed = NotParsed
    /\ worktree = [commits |-> << >>,
                   disk |-> [loc \in { TrackedFile, SiblingFile } |-> NoFile]]
    /\ IdleGit
    /\ IdleRenderer
    /\ IdleWatch

NextParser == ParseDiff

SpecParser == InitParser /\ [][NextParser]_vars

\* ------------------------------------------------------------------------
\* Claims about the change-notification layer
\* ------------------------------------------------------------------------

\* The watchIds watch(path) returned that no unwatch(path, id) has released yet.
OutstandingIds(p) == returnedIds[p] \ releasedIds[p]

\* The underlying resource of a path: its registry entry together with the one
\* open fs watcher (local) or the one scheduled interval (remote) the entry owns.
UnderlyingExists(p) ==
    IF resolveRemoteProjectForWorktreePath(p) # NoEntry
    THEN /\ remoteStatusPollers[p] # NoEntry
         /\ liveIntervals[p] = {remoteStatusPollers[p].intervalId}
    ELSE /\ gitStatusWatchers[p] # NoEntry
         /\ openWatchers[p] = {gitStatusWatchers[p].watcher}

UnderlyingGone(p) ==
    /\ remoteStatusPollers[p] = NoEntry /\ liveIntervals[p] = {}
    /\ gitStatusWatchers[p] = NoEntry /\ openWatchers[p] = {}

\* C1: as long as no watcher error has occurred on a path, the path's watcher
\* (local) or poller (remote) exists exactly when some watchId returned by
\* watch(path) has not been released yet, and is completely gone otherwise.
C1_RefCountedWatch ==
    \A p \in Paths :
        ~watcherErrored[p] =>
            IF OutstandingIds(p) # {} THEN UnderlyingExists(p) ELSE UnderlyingGone(p)

\* C1 witness: a second watch was issued while the first was outstanding, the
\* second has been released, and the watcher or poller is still there.
C1_Witness ==
    \E p \in Paths :
        /\ ~watcherErrored[p]
        /\ Cardinality(returnedIds[p]) = 2
        /\ \E a, b \in returnedIds[p] :
              a < b /\ releasedIds[p] = {b} /\ UnderlyingExists(p)

\* ------------------------------------------------------------------------
\* Claims about the local backend
\* ------------------------------------------------------------------------

\* The push commands among the commands of a call, in order.
PushCommandsOf(cmds) == SelectSeq(cmds, LAMBDA c : c \in {Cmd.push, Cmd.pushSetUpstream})

\* C2: push runs a plain push first; it runs a second push, the upstream-setting
\* push of the current branch, at most once and only after a first push that
\* failed for want of an upstream; a first push that failed for another reason is
\* thrown as it is, and no second push command is issued.
C2_PushRetriesOnlyForUpstream ==
    call.op = "push" =>
        LET pushes == PushCommandsOf(call.cmds)
            first == call.result.first
        IN  /\ call.cmds[1] = Cmd.push
            /\ pushes \in { << Cmd.push >>, << Cmd.push, Cmd.pushSetUpstream >> }
            /\ Len(pushes) = 2 =>
                  /\ first.kind = "no-upstream"
                  /\ call.result.branch = CurrentBranch
            /\ first.kind \notin {"none", "no-upstream"} =>
                  /\ pushes = << Cmd.push >>
                  /\ ~call.result.ok
                  /\ call.result.error = first
                  /\ call.after = call.before

\* C2 witness: a first push failed for want of an upstream and the retry went
\* through.
C2_Witness ==
    /\ call.op = "push"
    /\ call.result.first.kind = "no-upstream"
    /\ PushCommandsOf(call.cmds) = << Cmd.push, Cmd.pushSetUpstream >>
    /\ call.result.ok
    /\ call.after.upstreamConfigured

\* The latest commit's computed isPushed: position 0 is at or past the ahead count.
LatestIsPushed(r) == 0 >= ComputeAheadCount(r).aheadCount

\* C3: softResetLastCommit runs git reset --soft HEAD~1 only when HEAD has a
\* parent and the latest commit's computed isPushed is false; on a first commit,
\* and on a pushed latest commit, it ends with the guard's error, has issued no
\* reset, and has left the repository as it found it.
C3_SoftResetGuarded ==
    call.op = "softReset" =>
        LET hasParent == Len(call.before.history) >= 2
            pushed == LatestIsPushed(call.before)
        IN  /\ Cmd.resetSoft \in SeqToSet(call.cmds) => hasParent /\ ~pushed
            /\ call.pc = "reset" => hasParent /\ ~pushed
            /\ ~hasParent =>
                  /\ call.pc = "done"
                  /\ call.result = [ok |-> FALSE, error |-> Err.initialCommit]
                  /\ Cmd.resetSoft \notin SeqToSet(call.cmds)
                  /\ call.after = call.before
            /\ hasParent /\ pushed =>
                  /\ call.pc = "done"
                  /\ call.result = [ok |-> FALSE, error |-> Err.alreadyPushed]
                  /\ Cmd.resetSoft \notin SeqToSet(call.cmds)
                  /\ call.after = call.before

\* C3 witness: an undo of a pushed commit was refused.
C3_Witness ==
    /\ call.op = "softReset"
    /\ Len(call.before.history) >= 2
    /\ LatestIsPushed(call.before)
    /\ call.result.error = Err.alreadyPushed

\* No ref to compare HEAD with: no upstream, no origin/<branch>, no origin/HEAD.
NoRemoteInformation(r) ==
    ~Upstream(r).exists /\ ~r.originBranch.exists /\ ~r.originHead.exists

\* A getLog call that had to compute the ahead count itself.
ComputedAhead(c) == c.op = "getLog" /\ (c.args[3] = None \/ c.args[3][1] < 0)

\* C4 as stated: without remote information the branch status is ahead 0,
\* behind 0 and getLog returns aheadCount 0, each as a success, never an error.
C4_AsStated ==
    /\ call.op = "branchStatus" /\ NoRemoteInformation(call.before) =>
          call.result.ok /\ call.result.ahead = 0 /\ call.result.behind = 0
    /\ ComputedAhead(call) /\ NoRemoteInformation(call.before) =>
          call.result.ok /\ call.result.aheadCount = 0

\* C4 amended: without remote information the branch status is ahead 0, behind
\* 0 as a success; getLog's ahead count is 0, and getLog fails exactly when HEAD
\* has no commit yet (its git log command fails); when it returns, it returns
\* aheadCount 0 and reports every commit as pushed.
C4_ZeroWithoutRemote ==
    /\ call.op = "branchStatus" /\ NoRemoteInformation(call.before) =>
          call.result.ok /\ call.result.ahead = 0 /\ call.result.behind = 0
    /\ ComputedAhead(call) /\ NoRemoteInformation(call.before) =>
          /\ call.result.aheadCount = 0
          /\ call.result.ok <=> call.before.history # << >>
          /\ ~call.result.ok => call.cmds[Len(call.cmds)] = Cmd.log
          /\ \A i \in 1..Len(call.result.commits) : call.result.commits[i].isPushed

\* C4 witness: getLog on a repository with commits and no remote returned a
\* page with ahead count 0.
C4_Witness ==
    /\ ComputedAhead(call)
    /\ ~call.before.hasOrigin
    /\ call.result.ok
    /\ Len(call.result.commits) = 2
    /\ call.result.aheadCount = 0

\* C5: every page getLog returns marks the commit at index i pushed exactly when
\* skip + i >= aheadCount; an ahead count >= 0 the caller passes in is returned
\* as it is, with no command run to recompute it; so in the list CommitList has
\* put together from pages fetched with one ahead count, exactly the positions
\* below that count are unpushed, whatever landed between the page loads.
C5_PushedByPosition ==
    /\ call.op = "getLog" /\ call.result.ok =>
          \A i \in 1..Len(call.result.commits) :
              call.result.commits[i].isPushed
                  = (call.args[2] + (i - 1) >= call.result.aheadCount)
    /\ call.op = "getLog" /\ call.args[3] # None /\ ~ComputedAhead(call) =>
          /\ call.result.aheadCount = call.args[3][1]
          /\ call.cmds = << Cmd.log >>
    /\ \A p \in 1..Len(commitList.commits) :
          commitList.commits[p].isPushed = (p - 1 >= commitList.aheadCount[1])

\* C5 witness: a commit landed after the first page, a further page was then
\* appended, and the ahead count kept from the first page is no longer the one
\* getLog would compute.
C5_Witness ==
    /\ commitList.pagedSinceLanding
    /\ Len(commitList.commits) > PageSize
    /\ commitList.aheadCount = Some(1)
    /\ ComputeAheadCount(repo).aheadCount = 2

\* ------------------------------------------------------------------------
\* Claims about the parser and the file operations
\* ------------------------------------------------------------------------

\* What the DiffLine type asks of a line, type by type.
WellFormedDiffLine(l) ==
    /\ l.type \in { "context", "add", "del" }
    /\ l.left # None \/ l.right # None
    /\ l.type = "context" => l.left # None /\ l.right = l.left
    /\ l.type = "del" => l.left # None /\ l.right = None
    /\ l.type = "add" => l.right # None /\ l.left = None

\* C6: whatever the raw diff text, every DiffLine the parser produces has left
\* or right defined and one type: a context line has left and right set to the
\* same content, a del line has only left, an add line has only right.
C6_DiffLinesWellFormed ==
    parsed.done => \A i \in 1..Len(parsed.lines) : WellFormedDiffLine(parsed.lines[i])

\* C6 witness: a text was parsed into a deletion followed by an addition.
C6_Witness ==
    /\ parsed.done
    /\ Len(parsed.lines) = 2
    /\ parsed.lines[1].type = "del"
    /\ parsed.lines[2].type = "add"

\* The path the status listing gives the tracked file: relative to the root.
RelativePath == << "f" >>

\* The file is on disk and HEAD does not record it.
Untracked(w) == ~HeadBlob(w).exists /\ FileAt(w, TrackedFile).exists

\* All lines are additions whose right-hand sides are, in order, the pieces of
\* the content between newlines.
AllAddOf(lines, content) ==
    /\ Len(lines) = Len(Split(content, "\n"))
    /\ \A i \in 1..Len(lines) :
          lines[i] = [type |-> "add", left |-> None,
                      right |-> Some(Split(content, "\n")[i])]

\* C7 as stated: for every untracked file, getFileDiff returns add lines only,
\* whose right-hand contents are the lines of the file's current content.
C7_AsStated ==
    (call.op = "getFileDiff" /\ call.args[1] = RelativePath /\ Untracked(call.before)) =>
        /\ call.result.ok
        /\ AllAddOf(call.result.lines, FileAt(call.before, TrackedFile).content)

\* C7 amended: for every untracked file that this process can read and that is
\* no larger than 512 KB, getFileDiff returns add lines only, whose right-hand
\* contents are the pieces of the file's current content between newlines; for
\* an untracked file that is larger or cannot be read it returns no lines.
C7_UntrackedAllAdd ==
    (call.op = "getFileDiff" /\ call.args[1] = RelativePath /\ Untracked(call.before)) =>
        LET f == FileAt(call.before, TrackedFile)
        IN  /\ call.result.ok
            /\ IF f.readable /\ f.size <= MAX_UNTRACKED_DIFF_BYTES
               THEN AllAddOf(call.result.lines, f.content)
               ELSE call.result.lines = << >>

\* C7 witness: an untracked, readable file of two lines, the second empty, was
\* diffed.
C7_Witness ==
    /\ call.op = "getFileDiff"
    /\ call.args[1] = RelativePath
    /\ Untracked(call.before)
    /\ FileAt(call.before, TrackedFile) = File(<< "a", "\n", "\n" >>)
    /\ Len(call.result.lines) = 3

\* HEAD records the file and it is gone from disk.
DeletedTracked(w) == HeadBlob(w).exists /\ ~FileAt(w, TrackedFile).exists

\* All lines are deletions whose left-hand sides are, in order, the given texts.
AllDelOf(lines, texts) ==
    /\ Len(lines) = Len(texts)
    /\ \A i \in 1..Len(lines) :
          lines[i] = [type |-> "del", left |-> Some(texts[i]), right |-> None]

\* The lines of a text as git counts them.
LineTexts(content) == [i \in 1..Len(GitLines(content)) |-> GitLines(content)[i].text]

\* C8: for every text file deleted from the working tree and still recorded in
\* HEAD, getFileDiff returns del lines only, whose left-hand contents are, in
\* order, the lines of the committed content (counted as git counts them, or as
\* the pieces between newlines).
C8_DeletedAllDel ==
    (/\ call.op = "getFileDiff"
     /\ call.args[1] = RelativePath
     /\ DeletedTracked(call.before)
     /\ ~IsBinaryContent(HeadBlob(call.before).content)) =>
        /\ call.result.ok
        /\ \/ AllDelOf(call.result.lines, LineTexts(HeadBlob(call.before).content))
           \/ AllDelOf(call.result.lines, Split(HeadBlob(call.before).content, "\n"))

\* The file path a file operation was called with.
FilePathOf(c) == IF c.op = "getCommitFileDiff" THEN c.args[2] ELSE c.args[1]

FileOperations == { "getFileDiff", "revertFile", "getCommitFileDiff" }

\* The place the path leads to, segment by segment, is not the root and not
\* below it.
LeadsOutside(filePath) ==
    LET segs == NormalizeSegments(
                    Split(IF IsAbsolute(filePath) THEN filePath
                          ELSE WorktreeRoot \o << Sep >> \o filePath, Sep), << >>)
    IN  ~(/\ Len(segs) >= Len(RootSegments)
          /\ SubSeq(segs, 1, Len(RootSegments)) = RootSegments)

\* C9: a file path that leads outside the working tree makes getFileDiff,
\* revertFile and getCommitFileDiff fail with the path-escape error, with no
\* git subprocess started, no file system call made, and every file as it was.
C9_EscapeFailsFirst ==
    (call.op \in FileOperations /\ LeadsOutside(FilePathOf(call))) =>
        /\ ~call.result.ok
        /\ call.result.error = Err.outsideWorktree
        /\ call.cmds = << >>
        /\ call.after = call.before

\* C9 witness: a revert aimed at the sibling directory's file was refused, and
\* the file is still there.
C9_Witness ==
    /\ call.op = "revertFile"
    /\ PathResolve(WorktreeRoot, call.args[1]) = SiblingFile
    /\ call.result.error = Err.outsideWorktree
    /\ FileAt(worktree, SiblingFile).exists

\* The checkout of revertFile was attempted and failed.
CheckoutFailed(c) == c.args[2] # << >> /\ Cmd.checkoutHead \in SeqToSet(c.cmds)

\* C10: when revertFile finds the file in HEAD and the checkout of its HEAD
\* version fails, the file on disk is as it was, no unlink was made, and the
\* call fails with "Failed to revert file: " followed by the checkout's message.
C10_FailedCheckoutKeepsFile ==
    (call.op = "revertFile" /\ HeadBlob(call.before).exists /\ CheckoutFailed(call)) =>
        /\ ~call.result.ok
        /\ call.result.error = Err.failedToRevert \o call.args[2]
        /\ call.after = call.before
        /\ Cmd.fsUnlinkSync \notin SeqToSet(call.cmds)

\* C10 witness: a modified tracked file outlived a failed checkout with its
\* modifications.
C10_Witness ==
    /\ call.op = "revertFile"
    /\ call.args = << RelativePath, CheckoutLocked, FALSE >>
    /\ HeadBlob(call.before).exists
    /\ ~call.result.ok
    /\ FileAt(worktree, TrackedFile).exists
    /\ FileAt(worktree, TrackedFile).content # HeadBlob(worktree).content

\* ------------------------------------------------------------------------
\* Further claims about the change-notification layer
\* ------------------------------------------------------------------------

\* The watchIds of a local path that were handed out, were never released, and
\* are no longer held by the path's entry: the ones a watcher error dropped.
DroppedIds(p) ==
    IF resolveRemoteProjectForWorktreePath(p) # NoEntry THEN {}
    ELSE OutstandingIds(p) \ (IF gitStatusWatchers[p] = NoEntry THEN {}
                              ELSE gitStatusWatchers[p].watchIds)

\* C13: a watcher error closes the watcher, removes the path's registry entry
\* with all its subscriptions, cancels the pending debounce timer and
\* broadcasts one notification, marked watcher-error; a path without an entry
\* has no open watcher and no pending timer, so nothing more is broadcast for
\* the torn-down watcher; an unwatch with a dropped watchId succeeds and
\* changes neither registry, watcher, timers nor broadcasts.
C13_WatcherErrorTearsDown ==
    /\ [](\A p \in Paths :
            gitStatusWatchers[p] = NoEntry => openWatchers[p] = {} /\ liveTimers[p] = {})
    /\ [][\A p \in Paths :
            /\ WatcherError(p) =>
                  /\ gitStatusWatchers'[p] = NoEntry
                  /\ openWatchers'[p] = {}
                  /\ liveTimers'[p] = {}
                  /\ broadcasts' =
                        Append(broadcasts, [taskPath |-> p, error |-> "watcher-error"])
            /\ \A id \in DroppedIds(p) :
                  GitUnwatchStatus(p, id) =>
                      /\ watchResult' = [success |-> TRUE]
                      /\ UNCHANGED << gitStatusWatchers, openWatchers, liveTimers,
                                      broadcasts >>]_vars

\* C13 witness: the only subscription of a path was released after the path's
\* watcher had failed with a debounce timer pending; the one broadcast is the
\* watcher-error notification.
C13_Witness ==
    \E p \in Paths :
        /\ watcherErrored[p]
        /\ fsEventsLeft < MaxFsEvents
        /\ Cardinality(returnedIds[p]) = 1
        /\ releasedIds[p] = returnedIds[p]
        /\ broadcasts = << [taskPath |-> p, error |-> "watcher-error"] >>

\* The status-changed notifications of a path that carry no error marker.
PlainBroadcasts(p) ==
    SelectSeq(broadcasts, LAMBDA b : b.taskPath = p /\ b.error = Undefined)

C15_BroadcastOnFingerprintChange ==
    [][\A p \in Paths :
          resolveRemoteProjectForWorktreePath(p) # NoEntry =>
              LET poller == remoteStatusPollers[p]
                  hash == StatusHash(remoteStatus[p])
              IN  /\ broadcasts' # broadcasts =>
                        /\ poller # NoEntry
                        /\ inFlightPolls'[p] = inFlightPolls[p] - 1
                        /\ hash # poller.lastStatusHash
                        /\ remoteStatusPollers'[p] = [poller EXCEPT !.lastStatusHash = hash]
                        /\ broadcasts' =
                              Append(broadcasts, [taskPath |-> p, error |-> Undefined])
                  /\ (poller # NoEntry /\ remoteStatusPollers'[p] # NoEntry
                        /\ remoteStatusPollers'[p].lastStatusHash # poller.lastStatusHash) =>
                        \/ broadcasts' # broadcasts
                        \/ remoteStatusPollers'[p].intervalId # poller.intervalId
                  /\ (PollResolves(p) /\ poller # NoEntry /\ hash = poller.lastStatusHash) =>
                        UNCHANGED << broadcasts, remoteStatusPollers >>]_vars

\* C15 witness: the first cycle of a poller found the fingerprint changed and
\* broadcast, its second cycle found it as stored and broadcast nothing.
C15_Witness ==
    \E p \in Paths :
        /\ remoteStatusPollers[p] # NoEntry
        /\ remoteStatusPollers[p].watchIds = returnedIds[p]
        /\ pollLog[p] = << "changed", "unchanged" >>
        /\ broadcasts = << [taskPath |-> p, error |-> Undefined] >>

\* C16: a poll cycle whose status query fails broadcasts nothing, leaves the
\* poller's entry with its stored fingerprint and its interval as they were,
\* and gives no error to anybody; every poller in the registry has its interval
\* scheduled, so its later cycles run, against the fingerprint it kept.
C16_FailedPollSkipsCycle ==
    /\ [](\A p \in Paths :
            remoteStatusPollers[p] # NoEntry =>
                liveIntervals[p] = {remoteStatusPollers[p].intervalId})
    /\ [][\A p \in Paths :
            (PollRejects(p) \/ pollLog'[p] = Append(pollLog[p], "failed")) =>
                UNCHANGED << broadcasts, remoteStatusPollers, liveIntervals,
                             watchResult >>]_vars

\* C16 witness: the first cycle of a poller failed while the remote status was
\* new to it, and its second cycle broadcast that status.
C16_Witness ==
    \E p \in Paths :
        /\ remoteStatusPollers[p] # NoEntry
        /\ remoteStatusPollers[p].watchIds = returnedIds[p]
        /\ Cardinality(returnedIds[p]) = 1
        /\ pollLog[p] = << "failed", "changed" >>
        /\ broadcasts = << [taskPath |-> p, error |-> Undefined] >>

\* ------------------------------------------------------------------------
\* GitService.getStatus
\* ------------------------------------------------------------------------

\* how many lines a staged or an unstaged change may add or remove
MaxChangedLines == 1

\* const MAX_UNTRACKED_LINECOUNT_BYTES = 512 * 1024
MAX_UNTRACKED_LINECOUNT_BYTES == 524288

\* What one git diff --numstat call finds for a path: nothing, a text change of
\* add added and del removed lines, a binary change, or the call fails.
Numstat(kind, a, d) == [kind |-> kind, add |-> a, del |-> d]

\* The changes a numstat can find behind one column of the status code.
NumstatsFor(column) ==
    LET counts == 0..MaxChangedLines \cup { 12 }
        texts == { Numstat("text", a, d) : a \in counts, d \in counts }
    IN  IF column \in { " ", "?" } THEN { Numstat("none", 0, 0) }
        ELSE { Numstat("binary", 0, 0), Numstat("fails", 0, 0) } \cup
             { t \in texts :
                 /\ t.add + t.del > 0
                 /\ column = "A" => t.del = 0
                 /\ column = "D" => t.add = 0 }

\* One changed path of a working tree: its two-column status code, the path it
\* was renamed from (if it was), what the two numstats find, the file on disk.
StatusEntries(filePath) ==
    UNION { { [code |-> code, path |-> filePath,
               from |-> IF code[1] = "R" THEN << "o" >> ELSE << >>,
               staged |-> staged, unstaged |-> unstaged, file |-> file] :
                staged \in NumstatsFor(code[1]),
                unstaged \in NumstatsFor(code[2]),
                file \in IF code = << "?", "?" >>
                         THEN { NoFile, File(<< >>), File(<< "a", "\n", "a" >>),
                                File(<< "a", "\n", "a", "\n" >>),
                                [File(<< "a", "\n" >>) EXCEPT
                                    !.size = MAX_UNTRACKED_LINECOUNT_BYTES + 1],
                                [File(<< "a", "\n" >>) EXCEPT !.readable = FALSE] }
                         ELSE IF "D" \in { code[1], code[2] } THEN { NoFile }
                         ELSE { File(<< "a", "\n" >>) } } :
            code \in { << "M", " " >>, << " ", "M" >>, << "M", "M" >>, << "A", " " >>,
                       << "A", "M" >>, << "D", " " >>, << " ", "D" >>, << "R", " " >>,
                       << "?", "?" >> } }

\* The working trees getStatus is asked about: a directory that is no working
\* tree, a clean tree, a tree with one changed path, and one with a second.
StatusTrees ==
    LET second == { e \in StatusEntries(<< "g" >>) :
                      \/ e.code = << " ", "M" >> /\ e.unstaged = Numstat("text", 1, 0)
                      \/ e.code = << "?", "?" >> /\ e.file = File(<< "a", "\n", "a", "\n" >>) }
    IN  { [inside |-> FALSE, entries |-> << >>], [inside |-> TRUE, entries |-> << >>] }
        \cup { [inside |-> TRUE, entries |-> << e >>] : e \in StatusEntries(<< "f" >>) }
        \cup { [inside |-> TRUE, entries |-> << e, g >>] :
                 e \in StatusEntries(<< "f" >>), g \in second }

\* stdout of git status --porcelain --untracked-files=all
RECURSIVE GitStatusPorcelain(_)
GitStatusPorcelain(entries) ==
    IF entries = << >> THEN << >>
    ELSE LET e == Head(entries)
         IN  e.code \o << " " >>
               \o (IF e.from = << >> THEN << >> ELSE e.from \o << " ", "-", ">", " " >>)
               \o e.path \o << "\n" >> \o GitStatusPorcelain(Tail(entries))

\* git diff --numstat [--cached] -- <filePath>
GitDiffNumstat(tree, cached, filePath) ==
    LET found == { i \in 1..Len(tree.entries) : tree.entries[i].path = filePath }
        e == tree.entries[CHOOSE i \in found : TRUE]
        stat == IF cached THEN e.staged ELSE e.unstaged
    IN  IF found = {} \/ stat.kind = "none" THEN Ok(<< >>)
        ELSE IF stat.kind = "fails" THEN Failed(<< >>)
        ELSE IF stat.kind = "binary"
        THEN Ok(<< "-", "\t", "-", "\t" >> \o filePath \o << "\n" >>)
        ELSE Ok(DecimalText(stat.add) \o << "\t" >> \o DecimalText(stat.del)
                  \o << "\t" >> \o filePath \o << "\n" >>)

\* parts[parts.length - 1] of s.split(sep)
RECURSIVE LastPart(_, _)
LastPart(s, sep) ==
    IF ~Includes(s, sep) THEN s
    ELSE LET i == CHOOSE k \in 0..(Len(s) - Len(sep)) :
                     /\ SubSeq(s, k + 1, k + Len(sep)) = sep
                     /\ \A j \in 0..(k - 1) : SubSeq(s, j + 1, j + Len(sep)) # sep
         IN  LastPart(SubSeq(s, i + Len(sep) + 1, Len(s)), sep)

\* sumNumstat: the lines of a numstat output added to the running totals
RECURSIVE sumNumstat(_, _)
sumNumstat(lines, totals) ==
    IF lines = << >> THEN totals
    ELSE LET p == Split(Head(lines), "\t")
             a == IF p[1] = << "-" >> THEN 0 ELSE ParseIntOr0(p[1])
             d == IF p[2] = << "-" >> THEN 0 ELSE ParseIntOr0(p[2])
         IN  sumNumstat(Tail(lines),
                        IF Len(Trim(Head(lines))) = 0 \/ Len(p) < 2 THEN totals
                        ELSE [additions |-> totals.additions + a,
                              deletions |-> totals.deletions + d])

\* countFileNewlinesCapped(filePath, maxBytes): null is None
countFileNewlinesCapped(file, maxBytes) ==
    IF ~file.exists \/ file.size > maxBytes \/ ~file.readable THEN None
    ELSE Some(Cardinality({ i \in 1..Len(file.content) : file.content[i] = "\n" }))

\* A count that reads the staged numstat only.
NumstatTotalsUnstagedOnly(tree, filePath) ==
    LET unstaged == GitDiffNumstat(tree, FALSE, filePath)
    IN  IF unstaged.ok /\ Trim(unstaged.stdout) # << >>
        THEN sumNumstat(Split(Trim(unstaged.stdout), "\n"), [additions |-> 0, deletions |-> 0])
        ELSE [additions |-> 0, deletions |-> 0]

\* getStatus: the two numstat calls of one path and their running totals
NumstatTotals(tree, filePath) ==
    LET staged == GitDiffNumstat(tree, TRUE, filePath)
        unstaged == GitDiffNumstat(tree, FALSE, filePath)
        afterStaged ==
            IF staged.ok /\ Trim(staged.stdout) # << >>
            THEN sumNumstat(Split(Trim(staged.stdout), "\n"),
                            [additions |-> 0, deletions |-> 0])
            ELSE [additions |-> 0, deletions |-> 0]
    IN  IF unstaged.ok /\ Trim(unstaged.stdout) # << >>
        THEN sumNumstat(Split(Trim(unstaged.stdout), "\n"), afterStaged)
        ELSE afterStaged

\* getStatus: the GitChange made of one line of the status output
GitChange(tree, line) ==
    LET statusCode == SubSeq(line, 1, 2)
        rest == SubSeq(line, 4, Len(line))
        filePath == IF Includes(statusCode, << "R" >>) /\ Includes(rest, << "-", ">" >>)
                    THEN Trim(LastPart(rest, << "-", ">" >>))
                    ELSE rest
        status == IF Includes(statusCode, << "A" >>) \/ Includes(statusCode, << "?" >>)
                  THEN "added"
                  ELSE IF Includes(statusCode, << "D" >>) THEN "deleted"
                  ELSE IF Includes(statusCode, << "R" >>) THEN "renamed"
                  ELSE "modified"
        found == { i \in 1..Len(tree.entries) : tree.entries[i].path = filePath }
        file == IF found = {} THEN NoFile
                ELSE tree.entries[CHOOSE i \in found : TRUE].file
        totals == NumstatTotals(tree, filePath)
        count == countFileNewlinesCapped(file, MAX_UNTRACKED_LINECOUNT_BYTES)
    IN  [path |-> filePath,
         status |-> status,
         additions |-> IF /\ totals.additions = 0 /\ totals.deletions = 0
                          /\ Includes(statusCode, << "?" >>) /\ count # None
                       THEN count[1] ELSE totals.additions,
         deletions |-> totals.deletions,
         isStaged |-> statusCode[1] # " " /\ statusCode[1] # "?"]

\* getStatus(taskPath)
getStatus(tree) ==
    LET statusOutput == GitStatusPorcelain(tree.entries)
        raw == Split(statusOutput, "\n")
        stripped == [i \in 1..Len(raw) |->
                        IF raw[i] # << >> /\ raw[i][Len(raw[i])] = "\r"
                        THEN SubSeq(raw[i], 1, Len(raw[i]) - 1) ELSE raw[i]]
        statusLines == SelectSeq(stripped, LAMBDA l : Len(l) > 0)
    IN  IF ~tree.inside \/ Trim(statusOutput) = << >> THEN << >>
        ELSE [i \in 1..Len(statusLines) |-> GitChange(tree, statusLines[i])]

\* getStatus called through 'git:status' on the working tree at hand
GetStatus ==
    /\ call.op = "none"
    /\ \E changes \in { getStatus(call.before) } :
          call' = [call EXCEPT !.op = "getStatus", !.after = call.before,
                               !.result = changes]
    /\ UNCHANGED << rendererVars, repo, commitList, watchVars, fileVars >>

\* A working tree, and nothing asked about it yet.
InitStatus ==
    /\ call \in { [Idle EXCEPT !.before = tree] : tree \in StatusTrees }
    /\ repo \in { r \in Repos : r.history = << >> /\ ~r.hasOrigin }
    /\ commitList = EmptyCommitList
    /\ IdleWatch
    /\ IdleFiles
    /\ IdleRenderer

SpecStatus == InitStatus /\ [][GetStatus]_vars

\* ------------------------------------------------------------------------
\* Claims about getStatus
\* ------------------------------------------------------------------------

\* The entry of the working tree a reported change is about.
EntryOf(tree, change) ==
    tree.entries[CHOOSE i \in 1..Len(tree.entries) : tree.entries[i].path = change.path]

\* The lines the two numstats of an entry count together.
AddedBoth(e) == e.staged.add + e.unstaged.add
RemovedBoth(e) == e.staged.del + e.unstaged.del

\* C11 as stated: every change getStatus reports carries, as additions and
\* deletions, the sums of the staged and the unstaged numstat of its path.
C11_AsStated ==
    call.op = "getStatus" =>
        /\ Len(call.result) = Len(call.before.entries)
        /\ \A i \in 1..Len(call.result) :
              LET e == EntryOf(call.before, call.result[i])
              IN  /\ call.result[i].additions = AddedBoth(e)
                  /\ call.result[i].deletions = RemovedBoth(e)

\* C11 amended: every change getStatus reports carries the sums of the staged
\* and the unstaged numstat of its path (a binary change and a failed numstat
\* call count as nothing), except that an untracked path, for which both
\* numstats are empty, carries as additions the number of newline characters
\* of its file when the file can be read and is no larger than 512 KB.
C11_StatusSumsBothNumstats ==
    call.op = "getStatus" =>
        /\ Len(call.result) = Len(call.before.entries)
        /\ \A i \in 1..Len(call.result) :
              LET e == EntryOf(call.before, call.result[i])
                  newlines == Cardinality({ k \in 1..Len(e.file.content) :
                                              e.file.content[k] = "\n" })
                  counted == /\ e.code = << "?", "?" >>
                             /\ e.file.exists /\ e.file.readable
                             /\ e.file.size <= MAX_UNTRACKED_LINECOUNT_BYTES
              IN  /\ call.result[i].path = call.before.entries[i].path
                  /\ call.result[i].additions =
                        IF counted THEN newlines ELSE AddedBoth(e)
                  /\ call.result[i].deletions = RemovedBoth(e)

\* C11 witness: a file with a staged and an unstaged modification is reported
\* with the lines of both.
C11_Witness ==
    /\ call.op = "getStatus"
    /\ Len(call.before.entries) = 1
    /\ call.before.entries[1].code = << "M", "M" >>
    /\ call.before.entries[1].staged = Numstat("text", 12, 1)
    /\ call.before.entries[1].unstaged = Numstat("text", 1, 12)
    /\ call.result[1].additions = 13 /\ call.result[1].deletions = 13

\* ------------------------------------------------------------------------
\* 'git:rename-branch'
\* ------------------------------------------------------------------------

\* The branch to be renamed, as its repository has it: whether a remote named
\* origin is configured; branch.<oldBranch>.remote (empty: not set; a branch
\* created from a remote-tracking branch has it set before any push); whether
\* the branch has been pushed, so that its remote has it; whether the remote
\* answers; whether a branch of the new name exists already.
BranchRepos ==
    { b \in [hasOrigin : BOOLEAN,
             trackingRemote : { << >>, << "o", "r", "i", "g", "i", "n" >>,
                                << "f", "o", "r", "k" >> },
             pushed : BOOLEAN, reachable : BOOLEAN, newBranchExists : BOOLEAN] :
        /\ b.trackingRemote = << "o", "r", "i", "g", "i", "n" >> => b.hasOrigin
        /\ (~b.hasOrigin /\ b.trackingRemote = << >>) => ~b.pushed }

\* The name the branch is to get.
NewBranch == << "n", "e", "w" >>

\* The local branch of the handler: its commands in order, what it returns,
\* whether the remote has been written to, and the name the local branch has
\* when the handler returns.
renameBranch(b) ==
    LET remoteOut == IF b.trackingRemote = << >> THEN Failed(<< >>)
                     ELSE Ok(b.trackingRemote \o << "\n" >>)
        lsRemote == IF ~b.hasOrigin \/ ~b.reachable THEN Failed(<< >>)
                    ELSE IF b.pushed THEN Ok(<< "1", "\t", "r", "e", "f", "s", "/", "h",
                                                "e", "a", "d", "s", "/" >> \o CurrentBranch
                                                \o << "\n" >>)
                    ELSE Ok(<< >>)
        tracked == remoteOut.ok /\ Trim(remoteOut.stdout) # << >>
        remoteName == IF tracked THEN Trim(remoteOut.stdout)
                      ELSE << "o", "r", "i", "g", "i", "n" >>
        remotePushed == IF remoteOut.ok THEN tracked
                        ELSE lsRemote.ok /\ Trim(lsRemote.stdout) # << >>
        probes == << Cmd.configGetRemote >>
                    \o (IF remoteOut.ok THEN << >> ELSE << Cmd.lsRemoteHeads >>)
        canPush == b.reachable /\ (remoteName = << "o", "r", "i", "g", "i", "n" >> => b.hasOrigin)
    IN  IF b.newBranchExists
        THEN [cmds |-> probes \o << Cmd.branchMove >>, wroteRemote |-> FALSE,
              localBranch |-> CurrentBranch,
              result |-> [success |-> FALSE, remotePushed |-> FALSE]]
        ELSE IF ~remotePushed
        THEN [cmds |-> probes \o << Cmd.branchMove >>, wroteRemote |-> FALSE,
              localBranch |-> NewBranch,
              result |-> [success |-> TRUE, remotePushed |-> FALSE]]
        ELSE [cmds |-> probes \o << Cmd.branchMove, Cmd.pushDelete, Cmd.pushUpstream >>,
              wroteRemote |-> canPush,
              localBranch |-> NewBranch,
              result |-> [success |-> canPush, remotePushed |-> canPush]]

\* ipcMain.handle('git:rename-branch'); remotely the remote backend decides.
RenameBranch(remotePushed) ==
    /\ call.op = "none"
    /\ LET remoteProject == resolveRemoteProjectForWorktreePath(TaskPath)
       IN  \E res \in { IF remoteProject # NoEntry
                       THEN [cmds |-> << Cmd.remoteRenameBranch >>,
                             wroteRemote |-> remotePushed,
                             localBranch |-> NewBranch,
                             result |-> [success |-> TRUE, remotePushed |-> remotePushed]]
                       ELSE renameBranch(call.before) } :
              call' = [call EXCEPT !.op = "renameBranch", !.after = [wroteRemote |-> res.wroteRemote,
                                               localBranch |-> res.localBranch],
                                   !.cmds = res.cmds, !.result = res.result]
    /\ UNCHANGED << rendererVars, repo, commitList, watchVars, fileVars >>

\* A branch of a local or a remote project, and no rename asked for yet.
InitRename ==
    /\ call \in { [Idle EXCEPT !.before = b] : b \in BranchRepos }
    /\ repo \in { r \in Repos : r.history = << >> /\ ~r.hasOrigin }
    /\ commitList = EmptyCommitList
    /\ InitWatch
    /\ supportsRecursiveWatch
    /\ IdleFiles
    /\ IdleRenderer

\* handleRenameTask from the optimistic update on: the task shows the new
\* branch, 'git:rename-branch' has returned, saveTask succeeds or throws, and
\* the catch block renames back only what it knows to be renamed before it
\* reverts the task to the old branch.
HandleRenameTask(saveFails, rollbackWorks) ==
    /\ call.op = "renameBranch"
    /\ renderer = NoEntry
    /\ LET branchRenamed == call.result.success
           failed == ~call.result.success \/ saveFails
           rolledBack == failed /\ branchRenamed /\ rollbackWorks
       IN  /\ renderer' = [task |-> [branch |-> IF failed THEN CurrentBranch ELSE NewBranch],
                           toast |-> failed]
           /\ call' = [call EXCEPT !.after.localBranch =
                                       IF rolledBack THEN CurrentBranch ELSE @]
    /\ UNCHANGED << ipc, repo, commitList, watchVars, fileVars >>

NextRename ==
    \/ \E remotePushed \in BOOLEAN : RenameBranch(remotePushed)
    \/ \E saveFails, rollbackWorks \in BOOLEAN : HandleRenameTask(saveFails, rollbackWorks)

SpecRename == InitRename /\ [][NextRename]_vars

\* ------------------------------------------------------------------------
\* Claims about 'git:rename-branch'
\* ------------------------------------------------------------------------

\* C12: the rename of a branch of a local project that has never been pushed
\* runs no ls-remote, no push and no remote delete, writes nothing to a
\* remote, and reports remotePushed = false.
C12_UnpushedRenameIsLocal ==
    (/\ call.op = "renameBranch"
     /\ resolveRemoteProjectForWorktreePath(TaskPath) = NoEntry
     /\ ~call.before.pushed) =>
        /\ \A i \in 1..Len(call.cmds) :
              call.cmds[i] \notin { Cmd.lsRemoteHeads, Cmd.pushDelete, Cmd.pushUpstream }
        /\ ~call.after.wroteRemote
        /\ ~call.result.remotePushed

\* ------------------------------------------------------------------------
\* The IPC handlers and the backend each of them runs on
\* ------------------------------------------------------------------------

\* For every handler of a git operation: whether it looks the working tree up
\* with resolveRemoteProjectForWorktreePath and hands a remote project's call
\* to remoteGitService (or the poller), and whether it checks the path with
\* validateTaskPath before the local backend runs, or refuses a missing path
\* before anything else.
Handlers ==
    [ op \in { "git:watch-status", "git:unwatch-status", "git:get-status",
               "git:get-file-diff", "git:stage-file", "git:stage-all-files",
               "git:unstage-file", "git:revert-file", "git:get-branch-status",
               "git:rename-branch", "git:commit", "git:push", "git:pull", "git:get-log",
               "git:get-latest-commit", "git:get-commit-files",
               "git:get-commit-file-diff", "git:soft-reset" } |->
        [ routed |-> op \in { "git:watch-status", "git:unwatch-status", "git:get-status",
                              "git:get-file-diff", "git:stage-file",
                              "git:stage-all-files", "git:unstage-file",
                              "git:revert-file", "git:get-branch-status",
                              "git:rename-branch" },
          validated |-> op \in { "git:commit", "git:push", "git:pull", "git:get-log",
                                 "git:get-latest-commit", "git:get-commit-files",
                                 "git:get-commit-file-diff", "git:soft-reset" },
          requiresPath |-> op = "git:get-branch-status" ] ]

\* validateTaskPath(taskPath), by what the local file system has at the path:
\* the error string, or null (None)
validateTaskPath(taskPath) ==
    IF taskPath = "undefined" THEN Some("Missing taskPath")
    ELSE IF taskPath = "relative" THEN Some("taskPath must be absolute")
    ELSE IF taskPath = "file" THEN Some("taskPath is not a directory")
    ELSE IF taskPath = "absent" THEN Some("taskPath does not exist")
    ELSE None

\* A handler is invoked: the backend that runs the operation, or the error
\* returned before any backend runs.
Handle ==
    /\ call.op = "none"
    /\ LET op == call.before.op
           remoteProject == resolveRemoteProjectForWorktreePath(TaskPath)
           pathErr == validateTaskPath(call.before.taskPath)
       IN  call' = [call EXCEPT
                       !.op = op,
                       !.result =
                           IF Handlers[op].requiresPath /\ call.before.taskPath = "undefined"
                           THEN [success |-> FALSE, backend |-> "none",
                                 error |-> "Path does not exist"]
                           ELSE IF Handlers[op].routed /\ remoteProject # NoEntry
                           THEN [success |-> TRUE, backend |-> "remoteGitService"]
                           ELSE IF Handlers[op].validated /\ pathErr # None
                           THEN [success |-> FALSE, backend |-> "none", error |-> pathErr[1]]
                           ELSE [success |-> TRUE, backend |-> "GitService"]]
    /\ UNCHANGED << rendererVars, repo, commitList, watchVars, fileVars >>

\* A handler about to be invoked for the working tree of a local or a remote
\* project; the local file system may or may not have a directory at its path.
InitHandlers ==
    /\ call \in { [Idle EXCEPT !.before = [op |-> op, taskPath |-> t]] :
                    op \in DOMAIN Handlers,
                    t \in { "undefined", "relative", "file", "absent", "directory" } }
    /\ repo \in { r \in Repos : r.history = << >> /\ ~r.hasOrigin }
    /\ commitList = EmptyCommitList
    /\ InitWatch
    /\ supportsRecursiveWatch
    /\ call.before.taskPath \in { "undefined", "relative" } => remoteProjects = {}
    /\ IdleFiles
    /\ IdleRenderer

SpecHandlers == InitHandlers /\ [][Handle]_vars

\* ------------------------------------------------------------------------
\* Claims about the handlers
\* ------------------------------------------------------------------------

\* C17: every handler of a git operation, invoked for a working tree that
\* resolves to a remote project, has the remote backend run the operation and
\* runs no local git; invoked for any other working tree whose directory
\* exists, it has the local backend run it.
C17_RoutedByProject ==
    call.op \in DOMAIN Handlers =>
        IF resolveRemoteProjectForWorktreePath(TaskPath) # NoEntry
        THEN call.result.backend = "remoteGitService"
        ELSE call.before.taskPath = "directory" => call.result.backend = "GitService"

\* ------------------------------------------------------------------------
\* How the local handlers start git: execFile with an argument array, or
\* exec with one command line given to a shell
\* ------------------------------------------------------------------------

\* JSON.stringify(s) of a string: quoted, with quotes and backslashes escaped
JSONStringify(s) ==
    LET escaped == [i \in 1..Len(s) |->
                       IF s[i] \in { "\"", "\\" } THEN << "\\", s[i] >> ELSE << s[i] >>]
        flat[i \in 0..Len(s)] == IF i = 0 THEN << >> ELSE flat[i - 1] \o escaped[i]
    IN  << "\"" >> \o flat[Len(s)] \o << "\"" >>

\* What /bin/sh makes of a word in double quotes: the commands of its command
\* substitutions $(...), which it runs before the command of the line.
RECURSIVE CommandSubstitutions(_)
CommandSubstitutions(word) ==
    IF word = << >> THEN << >>
    ELSE IF word[1] = "\\" THEN CommandSubstitutions(SubSeq(word, 3, Len(word)))
    ELSE IF Len(word) >= 2 /\ word[1] = "$" /\ word[2] = "(" /\ Includes(word, << ")" >>)
    THEN LET close == CHOOSE k \in 3..Len(word) :
                         word[k] = ")" /\ \A j \in 3..(k - 1) : word[j] # ")"
         IN  << SubSeq(word, 3, close - 1) >>
               \o CommandSubstitutions(SubSeq(word, close + 1, Len(word)))
    ELSE CommandSubstitutions(Tail(word))

\* execAsync(`<command> ${JSON.stringify(text)}`, { cwd }): a command line run
\* by a shell; execFileAsync('git', [...command, text], { cwd }): an argument
\* array. started: the programs that run besides the command itself.
Run(via, command, text) ==
    [via |-> via, command |-> command, text |-> text,
     started |-> IF via = "exec" THEN CommandSubstitutions(JSONStringify(text))
                 ELSE << >>]

\* 'git:commit-and-push' on a local project: the commands it runs, in order.
\* tree: whether gh answers, whether HEAD is on the default branch, whether the
\* tree has changes, whether something is staged, what a plain push fails of
\* (NoFault: it works).
commitAndPush(args, tree) ==
    LET name == args.branchPrefix \o << "/", "k" >>
        newBranch == args.createBranchIfOnDefault /\ tree.onDefaultBranch
        stagedAfter == tree.staged \/ tree.hasWorkingChanges
    IN  << Run("exec", "git rev-parse --is-inside-work-tree", << >>),
           Run("exec", "git branch --show-current", << >>),
           Run("exec", "gh repo view --json defaultBranchRef -q .defaultBranchRef.name",
               << >>) >>
        \o (IF tree.ghAnswers THEN << >>
            ELSE << Run("exec", "git remote show origin | sed -n \"/HEAD branch/s/.*: //p\"",
                        << >>) >>)
        \o (IF newBranch THEN << Run("exec", "git checkout -b", name) >> ELSE << >>)
        \o << Run("exec", "git status --porcelain --untracked-files=all", << >>),
              Run("exec", "git diff --cached --name-only", << >>) >>
        \o (IF tree.hasWorkingChanges /\ ~tree.staged
            THEN << Run("exec", "git add -A", << >>) >> ELSE << >>)
        \o << Run("exec", "git reset -q .emdash || true", << >>),
              Run("exec", "git reset -q PLANNING.md || true", << >>),
              Run("exec", "git reset -q planning.md || true", << >>),
              Run("exec", "git diff --cached --name-only", << >>) >>
        \o (IF stagedAfter THEN << Run("exec", "git commit -m", args.commitMessage) >>
            ELSE << >>)
        \o << Run("exec", "git push", << >>) >>
        \o (IF tree.pushFailure = NoFault THEN << >>
            ELSE << Run("exec", "git push --set-upstream origin",
                        IF newBranch THEN name ELSE CurrentBranch) >>)
        \o << Run("exec", "git status -sb", << >>) >>

\* ipcMain.handle('git:commit-and-push'), on a local project
CommitAndPush ==
    /\ call.op = "none"
    /\ call' = [call EXCEPT !.op = "git:commit-and-push",
                            !.cmds = commitAndPush(call.args, call.before)]
    /\ UNCHANGED << rendererVars, repo, commitList, watchVars, fileVars >>

\* ipcMain.handle('git:commit') -> GitService.commit, on a local project with
\* something staged
Commit ==
    /\ call.op = "none"
    /\ call.before.staged
    /\ call' = [call EXCEPT
                   !.op = "git:commit",
                   !.cmds = IF Trim(call.args.commitMessage) = << >> THEN << >>
                            ELSE << Run("execFile", "git commit -m", call.args.commitMessage),
                                    Run("execFile", "git rev-parse HEAD", << >>) >>]
    /\ UNCHANGED << rendererVars, repo, commitList, watchVars, fileVars >>

\* The caller's texts and a working tree, before the handler runs.
InitCommit ==
    /\ call \in { [Idle EXCEPT !.args = a, !.before = t] :
                    a \in [commitMessage : { << "a" >>, << "a", " ", "\"", "a", "\"" >>,
                                             << "a", " ", "$", "(", "x", ")" >>, << " " >> },
                           branchPrefix : { << "o", "r", "c", "h" >>,
                                            << "$", "(", "x", ")" >> },
                           createBranchIfOnDefault : BOOLEAN],
                    t \in [ghAnswers : BOOLEAN, onDefaultBranch : BOOLEAN,
                           hasWorkingChanges : BOOLEAN, staged : BOOLEAN,
                           pushFailure : { NoFault,
                                           PushFailure("no-upstream", PushStderr.noUpstream),
                                           PushFailure("rejected", PushStderr.rejected),
                                           PushFailure("auth", PushStderr.auth) }] }
    /\ repo \in { r \in Repos : r.history = << >> /\ ~r.hasOrigin }
    /\ commitList = EmptyCommitList
    /\ IdleWatch
    /\ IdleFiles
    /\ IdleRenderer

SpecCommit == InitCommit /\ [][CommitAndPush \/ Commit]_vars

\* ------------------------------------------------------------------------
\* Claims about how git is started
\* ------------------------------------------------------------------------

\* C18: every command a local handler runs is started from an argument array
\* (execFile), never from a command line given to a shell, so that a text of
\* the caller (commit message, branch name) reaches git as one argument and
\* makes no other program run.
C18_ArgumentArraysOnly ==
    call.op \in { "git:commit", "git:commit-and-push" } =>
        \A i \in 1..Len(call.cmds) :
            /\ call.cmds[i].via = "execFile"
            /\ call.cmds[i].started = << >>

\* ------------------------------------------------------------------------
\* Claims about the tiers of the ahead computations
\* ------------------------------------------------------------------------

\* The ahead count of the three tiers as the contract words them: against the
\* configured upstream, else against the same-named branch on origin, else
\* against the default branch of the remote, else 0.
AheadByTiers(r) ==
    LET t1 == RevListCount(r, Upstream(r))
        t2 == RevListCount(r, r.originBranch)
        t3 == RevListCount(r, r.originHead)
    IN  IF t1.ok THEN ParseIntOr0(Trim(t1.stdout))
        ELSE IF t2.ok THEN ParseIntOr0(Trim(t2.stdout))
        ELSE IF t3.ok THEN ParseIntOr0(Trim(t3.stdout))
        ELSE 0

\* The commands of cmds that compare HEAD with a ref, in the order they ran.
Comparisons(cmds) ==
    SelectSeq(cmds, LAMBDA c : c \in { Cmd.revListUpstream, Cmd.revListOriginBranch,
                                       Cmd.revListDefault, Cmd.leftRightUpstream,
                                       Cmd.leftRightOriginBranch, Cmd.statusSb })

\* C19: getLog's ahead count and the ahead of 'git:get-branch-status' both come
\* from the first tier that succeeds of (1) the configured upstream, (2) the
\* same-named branch on origin, (3) the default branch of the remote, tried in
\* this order, a later one only after every earlier one failed.
C19_TiersInOrder ==
    /\ ComputedAhead(call) =>
          /\ call.result.aheadCount = AheadByTiers(call.before)
          /\ Comparisons(call.cmds) \in
                { << Cmd.revListUpstream >>,
                  << Cmd.revListUpstream, Cmd.revListOriginBranch >>,
                  << Cmd.revListUpstream, Cmd.revListOriginBranch, Cmd.revListDefault >>,
                  << Cmd.revListUpstream, Cmd.revListDefault >> }
          /\ Len(Comparisons(call.cmds)) > 1 => ~RevListCount(call.before, Upstream(call.before)).ok
          /\ Cmd.revListDefault \in SeqToSet(call.cmds) =>
                ~RevListCount(call.before, call.before.originBranch).ok
    /\ call.op = "branchStatus" =>
          /\ call.result.ahead = AheadByTiers(call.before)
          /\ Len(Comparisons(call.cmds)) > 1 =>
                ~RevListLeftRight(call.before, Upstream(call.before)).ok
          /\ Len(Comparisons(call.cmds)) > 2 =>
                ~RevListLeftRight(call.before, call.before.originBranch).ok

\* ------------------------------------------------------------------------
\* useTerminalSelection: which terminal the panel shows
\* ------------------------------------------------------------------------

MaxTerminals == 2

\* The selection modes as they are written in a selection value
SelectedMode ==
    [task |-> << "t", "a", "s", "k" >>,
     global |-> << "g", "l", "o", "b", "a", "l" >>,
     lifecycle |-> << "l", "i", "f", "e", "c", "y", "c", "l", "e" >>]

\* `${mode}::${id}`
TerminalValue(mode, id) == SelectedMode[mode] \o << ":", ":" >> \o id

\* value.match(/^(task|global|lifecycle)::(.+)$/): None when the value does not
\* match, else the mode and the id. The id is one character or more, none of
\* them a line terminator.
parseTerminalValue(value) ==
    LET matches == { mode \in DOMAIN SelectedMode :
                        /\ StartsWith(value, SelectedMode[mode] \o << ":", ":" >>)
                        /\ Len(value) > Len(SelectedMode[mode]) + 2
                        /\ \A i \in (Len(SelectedMode[mode]) + 3)..Len(value) :
                              value[i] \notin { "\n", "\r" } }
    IN  IF matches = {} THEN None
        ELSE LET mode == CHOOSE m \in matches : TRUE
             IN  Some([mode |-> mode,
                       id |-> SubSeq(value, Len(SelectedMode[mode]) + 3, Len(value))])

\* The ids of the terminals of a store, and the stores: a list of terminals
\* without repetition and the id of the active one (None for null), which need
\* not be in the list.
TerminalIds == { << "1" >>, << "2" >> }
TerminalStores ==
    { st \in [terminals : UNION { [1..n -> TerminalIds] : n \in 0..MaxTerminals },
              activeTerminalId : {None} \cup { Some(id) : id \in TerminalIds }] :
        \A i, j \in 1..Len(st.terminals) : st.terminals[i] = st.terminals[j] => i = j }

\* terminals.some((t) => t.id === id)
HasTerminal(store, id) == \E i \in 1..Len(store.terminals) : store.terminals[i] = id

\* The first terminal of the global store, else of the task store, else ''
FirstAvailableGlobalFirst(taskTerminals, globalTerminals) ==
    IF Len(globalTerminals.terminals) > 0
    THEN TerminalValue("global", globalTerminals.terminals[1])
    ELSE IF Len(taskTerminals.terminals) > 0
    THEN TerminalValue("task", taskTerminals.terminals[1])
    ELSE << >>

\* The first terminal of the task store, else of the global store, else ''
FirstAvailable(taskTerminals, globalTerminals) ==
    IF Len(taskTerminals.terminals) > 0
    THEN TerminalValue("task", taskTerminals.terminals[1])
    ELSE IF Len(globalTerminals.terminals) > 0
    THEN TerminalValue("global", globalTerminals.terminals[1])
    ELSE << >>

\* A resolveSelection that, when the selected terminal is gone, goes to the
\* other type before it looks at the active terminal of the same type.
resolveSelectionOtherTypeFirst(params) ==
    LET taskTerminals == params.taskTerminals
        globalTerminals == params.globalTerminals
        selected == parseTerminalValue(params.currentValue)
        mode == selected[1].mode
        sameTypeStore == IF mode = "task" THEN taskTerminals ELSE globalTerminals
        otherMode == IF mode = "task" THEN "global" ELSE "task"
        otherStore == IF mode = "task" THEN globalTerminals ELSE taskTerminals
    IN  IF params.taskId # params.prevTaskId
        THEN Some(FirstAvailable(taskTerminals, globalTerminals))
        ELSE IF params.currentValue = << >>
        THEN Some(FirstAvailable(taskTerminals, globalTerminals))
        ELSE IF selected = None THEN Some(<< >>)
        ELSE IF params.taskId \in { None, Some("") } /\ mode = "task"
        THEN Some(FirstAvailable([terminals |-> << >>], globalTerminals))
        ELSE IF mode = "lifecycle" THEN None
        ELSE IF HasTerminal(sameTypeStore, selected[1].id) THEN None
        ELSE IF Len(otherStore.terminals) > 0
        THEN Some(TerminalValue(otherMode, otherStore.terminals[1]))
        ELSE IF /\ sameTypeStore.activeTerminalId # None
                /\ HasTerminal(sameTypeStore, sameTypeStore.activeTerminalId[1])
        THEN Some(TerminalValue(mode, sameTypeStore.activeTerminalId[1]))
        ELSE Some(<< >>)

\* resolveSelection(params): Some(value) for the new selection value, None for
\* null (no change needed). A task id is None for null, else Some(id).
resolveSelection(params) ==
    LET taskTerminals == params.taskTerminals
        globalTerminals == params.globalTerminals
        selected == parseTerminalValue(params.currentValue)
        mode == selected[1].mode
        sameTypeStore == IF mode = "task" THEN taskTerminals ELSE globalTerminals
        otherMode == IF mode = "task" THEN "global" ELSE "task"
        otherStore == IF mode = "task" THEN globalTerminals ELSE taskTerminals
    IN  IF params.taskId # params.prevTaskId
        THEN Some(FirstAvailable(taskTerminals, globalTerminals))
        ELSE IF params.currentValue = << >>
        THEN Some(FirstAvailable(taskTerminals, globalTerminals))
        ELSE IF selected = None THEN Some(<< >>)
        ELSE IF params.taskId \in { None, Some("") } /\ mode = "task"
        THEN Some(FirstAvailable([terminals |-> << >>], globalTerminals))
        ELSE IF mode = "lifecycle" THEN None
        ELSE IF HasTerminal(sameTypeStore, selected[1].id) THEN None
        ELSE IF /\ sameTypeStore.activeTerminalId # None
                /\ HasTerminal(sameTypeStore, sameTypeStore.activeTerminalId[1])
        THEN Some(TerminalValue(mode, sameTypeStore.activeTerminalId[1]))
        ELSE IF Len(otherStore.terminals) > 0
        THEN Some(TerminalValue(otherMode, otherStore.terminals[1]))
        ELSE Some(<< >>)

\* The parameters resolveSelection is called with
SelectionParams ==
    [currentValue : { << >>, << "i", "n", "v", "a", "l", "i", "d" >>,
                      TerminalValue("task", << >>),
                      TerminalValue("lifecycle", << "r", "u", "n" >>) }
                    \cup { TerminalValue(mode, id) :
                              mode \in { "task", "global" }, id \in TerminalIds },
     taskId : { None, Some(""), Some("task-1"), Some("task-2") },
     prevTaskId : { None, Some("task-1"), Some("task-2") },
     taskTerminals : TerminalStores,
     globalTerminals : TerminalStores]

\* One call of resolveSelection
ResolveSelection ==
    /\ call.op = "none"
    /\ call' = [call EXCEPT !.op = "resolveSelection",
                            !.result = resolveSelection(call.before)]
    /\ UNCHANGED << rendererVars, repo, commitList, watchVars, fileVars >>

InitSelection ==
    /\ call \in { [Idle EXCEPT !.before = params] : params \in SelectionParams }
    /\ repo \in { r \in Repos : r.history = << >> /\ ~r.hasOrigin }
    /\ commitList = EmptyCommitList
    /\ IdleWatch
    /\ IdleFiles
    /\ IdleRenderer

SpecSelection == InitSelection /\ [][ResolveSelection]_vars

\* ------------------------------------------------------------------------
\* Claims about the terminal selection
\* ------------------------------------------------------------------------

\* C20: when the task id differs from the previous task id, or when the current
\* selection is empty, resolveSelection returns the value of the first task
\* terminal if there is one, otherwise of the first global terminal, otherwise
\* the empty string, whatever was selected before.
C20_ResetToFirstTerminal ==
    /\ call.op = "resolveSelection"
    /\ call.before.taskId # call.before.prevTaskId \/ call.before.currentValue = << >>
    => call.result =
          IF call.before.taskTerminals.terminals # << >>
          THEN Some(SelectedMode.task \o << ":", ":" >>
                      \o Head(call.before.taskTerminals.terminals))
          ELSE IF call.before.globalTerminals.terminals # << >>
          THEN Some(SelectedMode.global \o << ":", ":" >>
                      \o Head(call.before.globalTerminals.terminals))
          ELSE Some(<< >>)

\* C20 witness: a task switch while a global terminal that still exists was
\* selected moved the selection to the first task terminal.
C20_Witness ==
    /\ call.op = "resolveSelection"
    /\ call.before.taskId = Some("task-2")
    /\ call.before.prevTaskId = Some("task-1")
    /\ call.before.currentValue = TerminalValue("global", << "1" >>)
    /\ call.before.globalTerminals.terminals = << << "1" >>, << "2" >> >>
    /\ call.before.taskTerminals.terminals = << << "2" >>, << "1" >> >>
    /\ call.result = Some(TerminalValue("task", << "2" >>))

\* The selection a call started from, parsed: its mode and id.
SelectionOf(c) == parseTerminalValue(c.before.currentValue)[1]

\* A call with no task switch and a selection that names a mode and an id.
KeepsTask(c) ==
    /\ c.op = "resolveSelection"
    /\ c.before.taskId = c.before.prevTaskId
    /\ c.before.currentValue # << >>
    /\ parseTerminalValue(c.before.currentValue) # None

\* The store of a mode, and of the other mode.
StoreOf(c, mode) == IF mode = "task" THEN c.before.taskTerminals ELSE c.before.globalTerminals
OtherStoreOf(c, mode) == IF mode = "task" THEN c.before.globalTerminals ELSE c.before.taskTerminals

\* C21: with no task switch and a non-empty selection, a task-mode selection
\* while there is no task goes to the first global terminal ('' when there is
\* none); otherwise the result is null when the selection is a lifecycle phase
\* or its terminal still exists; otherwise the selected terminal is gone and
\* the result is the active terminal of the same store if that terminal exists,
\* else the first terminal of the other type, else ''.
C21_KeepOrFallBack ==
    KeepsTask(call) =>
        LET mode == SelectionOf(call).mode
            same == StoreOf(call, mode)
            other == OtherStoreOf(call, mode)
            globals == call.before.globalTerminals.terminals
        IN  IF call.before.taskId = None /\ mode = "task"
            THEN call.result = IF globals # << >>
                               THEN Some(SelectedMode.global \o << ":", ":" >> \o Head(globals))
                               ELSE Some(<< >>)
            ELSE IF mode = "lifecycle" THEN call.result = None
            ELSE IF \E i \in DOMAIN same.terminals : same.terminals[i] = SelectionOf(call).id
            THEN call.result = None
            ELSE IF \E i \in DOMAIN same.terminals : Some(same.terminals[i]) = same.activeTerminalId
            THEN call.result = Some(SelectedMode[mode] \o << ":", ":" >> \o same.activeTerminalId[1])
            ELSE IF other.terminals # << >>
            THEN call.result = Some(SelectedMode[IF mode = "task" THEN "global" ELSE "task"]
                                      \o << ":", ":" >> \o Head(other.terminals))
            ELSE call.result = Some(<< >>)

\* C21 witness: the selected task terminal was deleted while both the active
\* task terminal and a global terminal exist; the selection stayed with the
\* task terminals.
C21_Witness ==
    /\ KeepsTask(call)
    /\ call.before.taskId = Some("task-1")
    /\ call.before.currentValue = TerminalValue("task", << "1" >>)
    /\ call.before.taskTerminals = [terminals |-> << << "2" >> >>, activeTerminalId |-> Some(<< "2" >>)]
    /\ call.before.globalTerminals.terminals = << << "1" >> >>
    /\ call.result = Some(TerminalValue("task", << "2" >>))

\* ------------------------------------------------------------------------
\* Claims about what is left after the last release
\* ------------------------------------------------------------------------

\* The path has no registry entry, neither a watcher's nor a poller's.
Unsubscribed(p) == gitStatusWatchers[p] = NoEntry /\ remoteStatusPollers[p] = NoEntry

\* The unwatch of the last subscription a path's entry holds.
LastRelease(p, id) ==
    /\ GitUnwatchStatus(p, id)
    /\ ~Unsubscribed(p)
    /\ (IF resolveRemoteProjectForWorktreePath(p) # NoEntry
        THEN remoteStatusPollers[p].watchIds ELSE gitStatusWatchers[p].watchIds) \subseteq {id}

\* C22: the release of the last subscription of a path removes the path's
\* entry, cancels its debounce timer or poll interval and broadcasts nothing;
\* a path without an entry has no timer and no interval scheduled; and no step
\* taken while the path has no entry (a late filesystem event, an in-flight
\* poll that completes, anything else) broadcasts a notification.
C22_NothingAfterLastRelease ==
    /\ [](\A p \in Paths : Unsubscribed(p) => liveTimers[p] = {} /\ liveIntervals[p] = {})
    /\ [][\A p \in Paths :
            /\ \A id \in returnedIds[p] \cup {NoHandle} :
                  LastRelease(p, id) =>
                      /\ Unsubscribed(p)'
                      /\ liveTimers'[p] = {} /\ liveIntervals'[p] = {}
                      /\ broadcasts' = broadcasts
            /\ Unsubscribed(p) => broadcasts' = broadcasts]_vars

\* C22 witness: every subscription of a remote path has been released, a poll
\* that was in flight at the release has completed since, and nothing was
\* broadcast.
C22_Witness ==
    \E p \in Paths :
        /\ returnedIds[p] # {}
        /\ OutstandingIds(p) = {}
        /\ Unsubscribed(p)
        /\ "orphaned" \in SeqToSet(pollLog[p])
        /\ inFlightPolls[p] = 0
        /\ broadcasts = << >>

\* ------------------------------------------------------------------------
\* Claims about the parser on the diffs git prints
\* ------------------------------------------------------------------------

\* The hunk body of a diff git printed: the lines after the hunk header, the
\* no-newline markers left out. A body line starts with its sign, so none is
\* empty and none starts with a backslash.
HunkBody(out) ==
    LET ls == Split(out, "\n")
        headers == { i \in 1..Len(ls) : StartsWith(ls[i], << "@", "@" >>) }
    IN  IF headers = {} THEN << >>
        ELSE LET h == CHOOSE i \in headers : \A j \in headers : i <= j
             IN  SelectSeq(SubSeq(ls, h + 1, Len(ls)),
                           LAMBDA l : l # << >> /\ l[1] # "\\")

\* The DiffLine the spec gives a body line: by its first character, with the
\* rest of the line as content.
DiffLineOfBodyLine(l) ==
    IF l[1] = " " THEN [type |-> "context", left |-> << Tail(l) >>, right |-> << Tail(l) >>]
    ELSE IF l[1] = "-" THEN [type |-> "del", left |-> << Tail(l) >>, right |-> << >>]
    ELSE [type |-> "add", left |-> << >>, right |-> << Tail(l) >>]

\* A getFileDiff call that returned what the parser made of git's diff.
ReturnedParsedDiff(c) ==
    /\ c.op = "getFileDiff"
    /\ c.cmds = << Cmd.diffHead >>
    /\ c.result.ok
    /\ ~c.result.isBinary

\* C23: of a diff git printed, the parser drops the metadata lines and emits
\* one DiffLine per hunk body line, in order: context for a line that begins
\* with a space, del for '-', add for '+', each with the line minus its first
\* character as content, whatever the content of the line.
C23_OneDiffLinePerBodyLine ==
    ReturnedParsedDiff(call) =>
        LET hunk == HunkBody(GitDiffHead(call.before, call.args[1]).stdout)
        IN  call.result.lines = [i \in 1..Len(hunk) |-> DiffLineOfBodyLine(hunk[i])]

\* ------------------------------------------------------------------------
\* Claims about what revert removes
\* ------------------------------------------------------------------------

\* C24: revertFile removes a file from disk only when HEAD does not hold it; a
\* file HEAD holds is on disk after the call if it was before, whatever became
\* of the commands revertFile ran, a `git cat-file -e` that failed for a reason
\* of its own included.
C24_TrackedFileNeverDeleted ==
    call.op = "revertFile" =>
        /\ Cmd.fsUnlinkSync \in SeqToSet(call.cmds) =>
              ~BlobIn(call.before, Len(call.before.commits), call.args[1]).exists
        /\ \A loc \in DOMAIN call.before.disk :
              (/\ call.before.disk[loc].exists
               /\ loc = TrackedFile
               /\ HeadBlob(call.before).exists) => call.after.disk[loc].exists

\* ------------------------------------------------------------------------
\* Claims about the push of 'git:commit-and-push'
\* ------------------------------------------------------------------------

\* The pushes among the commands of a handler, in order.
PushesOf(cmds) ==
    SelectSeq(cmds, LAMBDA c : c.command \in { "git push", "git push --set-upstream origin" })

\* C25: 'git:commit-and-push' issues the upstream-setting push only after a
\* first push that failed for want of an upstream; after a first push that
\* failed of something else (rejected, authentication) no second push is run.
C25_RetryOnlyForUpstream ==
    call.op = "git:commit-and-push" =>
        LET pushes == PushesOf(call.cmds)
            first == call.before.pushFailure
        IN  /\ pushes[1].command = "git push"
            /\ Len(pushes) > 1 => first.kind = "no-upstream"
            /\ first.kind \in { "rejected", "auth" } => Len(pushes) = 1

\* ------------------------------------------------------------------------
\* FileList and CommitArea: the callers of the mutating git operations
\* ------------------------------------------------------------------------

\* invocations awaiting their response, at most
MaxInFlight == 3

\* The paths of fileChanges, in the order of the array, and as a set.
FileChanges == << "f", "g" >>
ChangedFiles == { FileChanges[i] : i \in DOMAIN FileChanges }

\* window.electronAPI.<op>({ taskPath, filePath }): one invocation
Invocation(op, filePath) == [op |-> op, taskPath |-> TaskPath, filePath |-> filePath]

\* The invocations are sent in the order of the array.
InvokeAll(op, files) ==
    LET chosen == SelectSeq(FileChanges, LAMBDA f : f \in files)
    IN  [i \in 1..Len(chosen) |-> Invocation(op, chosen[i])]

\* A handler starts: it sends its invocations and sets its busy flag, if any.
Invoke(invocations, busy) ==
    /\ renderer # NoEntry
    /\ Len(ipc) + Len(invocations) <= MaxInFlight
    /\ ipc' = ipc \o invocations
    /\ renderer' = IF busy = Undefined THEN renderer ELSE [renderer EXCEPT ![busy] = TRUE]
    /\ UNCHANGED << watchVars, gitVars, fileVars >>

\* FileList.handleStageAll(checked)
HandleStageAll(checked) ==
    IF checked
    THEN Invoke(<< Invocation("stageAllFiles", Undefined) >>, Undefined)
    ELSE Invoke(InvokeAll("unstageFile", { f \in ChangedFiles : renderer.isStaged[f] }),
                Undefined)

\* FileList.handleGroupStage(files, checked)
HandleGroupStage(files, checked) ==
    IF checked
    THEN Invoke(InvokeAll("stageFile", { f \in files : ~renderer.isStaged[f] }), Undefined)
    ELSE Invoke(InvokeAll("unstageFile", { f \in files : renderer.isStaged[f] }), Undefined)

\* FileList.handleFileStage(filePath, checked)
HandleFileStage(filePath, checked) ==
    /\ filePath \in ChangedFiles
    /\ Invoke(<< Invocation(IF checked THEN "stageFile" ELSE "unstageFile", filePath) >>,
              Undefined)

\* FileList.executeRestore() with restoreTarget = filePath
ExecuteRestore(filePath) ==
    /\ filePath \in ChangedFiles
    /\ Invoke(<< Invocation("revertFile", filePath) >>, Undefined)

\* CommitArea.handleCommit()
HandleCommit ==
    /\ renderer # NoEntry
    /\ (\E f \in ChangedFiles : renderer.isStaged[f])
          /\ renderer.hasCommitMessage /\ ~renderer.isCommitting
    /\ Invoke(<< Invocation("gitCommit", Undefined) >>, "isCommitting")

\* CommitArea.handlePush()
HandlePush ==
    /\ renderer # NoEntry
    /\ renderer.hasUnpushed /\ ~renderer.isPushing
    /\ Invoke(<< Invocation("gitPush", Undefined) >>, "isPushing")

\* CommitArea.handlePull()
HandlePull ==
    /\ renderer # NoEntry
    /\ ~renderer.isPulling
    /\ Invoke(<< Invocation("gitPull", Undefined) >>, "isPulling")

\* CommitArea.handleUndo()
HandleUndo ==
    /\ renderer # NoEntry
    /\ ~renderer.isUndoing
    /\ Invoke(<< Invocation("gitSoftReset", Undefined) >>, "isUndoing")

\* The main process answers the i-th invocation in flight: the handler that
\* awaited it goes on, refreshes the list and clears its busy flag.
Settle(i) ==
    /\ i \in 1..Len(ipc)
    /\ ipc' = SubSeq(ipc, 1, i - 1) \o SubSeq(ipc, i + 1, Len(ipc))
    /\ LET op == ipc[i].op
           all(b) == [f \in ChangedFiles |-> b]
       IN  renderer' =
             IF op = "stageFile" THEN [renderer EXCEPT !.isStaged[ipc[i].filePath] = TRUE]
             ELSE IF op = "unstageFile"
             THEN [renderer EXCEPT !.isStaged[ipc[i].filePath] = FALSE]
             ELSE IF op = "stageAllFiles" THEN [renderer EXCEPT !.isStaged = all(TRUE)]
             ELSE IF op = "revertFile" THEN [renderer EXCEPT !.isStaged[ipc[i].filePath] = FALSE]
             ELSE IF op = "gitCommit"
             THEN [renderer EXCEPT !.isStaged = all(FALSE), !.hasCommitMessage = FALSE,
                                   !.hasUnpushed = TRUE, !.isCommitting = FALSE]
             ELSE IF op = "gitPush"
             THEN [renderer EXCEPT !.hasUnpushed = FALSE, !.isPushing = FALSE]
             ELSE IF op = "gitPull" THEN [renderer EXCEPT !.isPulling = FALSE]
             ELSE [renderer EXCEPT !.hasCommitMessage = TRUE, !.isUndoing = FALSE]
    /\ UNCHANGED << watchVars, gitVars, fileVars >>

\* The changes panel of a task as it is mounted: nothing in flight.
InitCallers ==
    /\ renderer \in [isStaged : [ChangedFiles -> BOOLEAN],
                     hasCommitMessage : BOOLEAN, hasUnpushed : BOOLEAN,
                     isCommitting : {FALSE}, isPushing : {FALSE},
                     isPulling : {FALSE}, isUndoing : {FALSE}]
    /\ ipc = << >>
    /\ IdleWatch
    /\ IdleGit
    /\ IdleFiles

NextCallers ==
    \/ \E checked \in BOOLEAN : HandleStageAll(checked)
    \/ \E files \in SUBSET ChangedFiles, checked \in BOOLEAN : HandleGroupStage(files, checked)
    \/ \E filePath \in ChangedFiles, checked \in BOOLEAN : HandleFileStage(filePath, checked)
    \/ \E filePath \in ChangedFiles : ExecuteRestore(filePath)
    \/ HandleCommit
    \/ HandlePush
    \/ HandlePull
    \/ HandleUndo
    \/ \E i \in 1..MaxInFlight : Settle(i)

SpecCallers == InitCallers /\ [][NextCallers]_vars

\* C26: no two mutating git operations of the callers are in flight at the same
\* time against one working-tree path: a mutation starts only after the one
\* before it on that path has completed.
C26_OneMutationAtATime ==
    \A i, j \in 1..Len(ipc) : ipc[i].taskPath = ipc[j].taskPath => i = j

\* ------------------------------------------------------------------------
\* softResetLastCommit while a push is under way on the same working tree
\* ------------------------------------------------------------------------

\* push(taskPath) of another invocation, run to its end between the checks of
\* softResetLastCommit and its reset: only what it does to the repository is
\* kept.
PushDuringReset(fault1, fault2) ==
    /\ call.op = "softReset" /\ call.pc = "reset"
    /\ LET first == PlainPush(repo, fault1)
           retry == SetUpstreamPush(repo, fault2)
       IN  repo' = IF first.failure = NoFault THEN first.repo
                   ELSE IF NeedsUpstreamRetry(first.failure.stderr) THEN retry.repo
                   ELSE repo
    /\ UNCHANGED << rendererVars, call, commitList, watchVars, fileVars >>

NextResetDuringPush ==
    \/ SoftResetChecks
    \/ SoftResetRuns
    \/ \E fault1 \in { NoFault, PushFailure("auth", PushStderr.auth) } :
          PushDuringReset(fault1, NoFault)
    \/ CommitLands

SpecResetDuringPush == InitGit /\ [][NextResetDuringPush]_vars

\* C27: however softResetLastCommit and a push on the same working tree
\* interleave, git reset --soft HEAD~1 never runs while the commit at HEAD is
\* on the remote branch.
C27_ResetNeverOnPushedCommit ==
    [][SoftResetRuns => Head(repo.history) \notin repo.originBranch.commits]_vars

\* ------------------------------------------------------------------------
\* Claims about a failed rename
\* ------------------------------------------------------------------------

\* C28: when 'git:rename-branch' reports success = false the local branch
\* still has its old name, so that the old branch handleRenameTask puts back
\* on the task is the branch the repository has.
C28_FailedRenameLeavesOldBranch ==
    /\ (call.op = "renameBranch" /\ ~call.result.success) =>
           call.after.localBranch = CurrentBranch
    /\ (call.op = "renameBranch" /\ ~call.result.success /\ renderer # NoEntry) =>
           renderer.task.branch = call.after.localBranch

\* ------------------------------------------------------------------------
\* handleDeleteTask (usePanelLayout): the optimistic removal of a task, the
\* two deletion steps, and the restoration after a failure
\* ------------------------------------------------------------------------

\* The tasks of the project at work. "t1" was created with a worktree of its
\* own; "t2" runs on the project's path and has no worktree to remove.
TaskIds == { "t1", "t2" }

HasWorktree(t) == t = "t1"

NoTask == "null"

\* Task lists without a task twice, in any order.
TaskLists ==
    { q \in SeqsUpTo(TaskIds, Cardinality(TaskIds)) :
        \A i, j \in 1..Len(q) : q[i] = q[j] => i = j }

filterTasks(list, taskId) == SelectSeq(list, LAMBDA w : w # taskId)

Occurrences(list, taskId) == Cardinality({ i \in 1..Len(list) : list[i] = taskId })

\* A deletion that has not been asked for.
NoDeletion ==
    [pc |-> "idle", wasActive |-> FALSE, removeOk |-> TRUE, deleteOk |-> TRUE,
     result |-> TRUE]

removeTaskFromState(r, taskId, wasActive) ==
    [r EXCEPT !.tasks = filterTasks(@, taskId),
              !.activeTask = IF wasActive THEN NoTask ELSE @]

\* handleDeleteTask up to the await of Promise.allSettled: a task of the list
\* that is not being deleted is taken off the list, and worktreeRemove (for a
\* task with a worktree) and rpc.db.deleteTask are sent together.
HandleDeleteTask(t) ==
    /\ t \in SeqToSet(renderer.tasks)
    /\ t \notin renderer.deleting
    /\ LET wasActive == renderer.activeTask = t
       IN  /\ renderer' = [removeTaskFromState(renderer, t, wasActive)
                             EXCEPT !.deleting = @ \cup {t}]
           /\ ipc' = [ipc EXCEPT !.deletions[t] =
                                    [NoDeletion EXCEPT !.pc = "awaiting",
                                                       !.wasActive = wasActive]]
    /\ UNCHANGED << gitVars, watchVars, fileVars >>

\* The two promises settle: the worktree removal succeeds or not, the row of
\* the task is deleted from the database or the call is rejected.
DeletionSettles(t, removeOk, deleteOk) ==
    /\ ipc.deletions[t].pc = "awaiting"
    /\ ipc' = [ipc EXCEPT !.db = IF deleteOk THEN filterTasks(@, t) ELSE @,
                          !.deletions[t] = [@ EXCEPT !.pc = "settled",
                                                     !.removeOk = removeOk \/ ~HasWorktree(t),
                                                     !.deleteOk = deleteOk]]
    /\ UNCHANGED << renderer, gitVars, watchVars, fileVars >>

\* runDeletion after the await: true when both steps succeeded; otherwise the
\* catch block puts rpc.db.getTasks' answer in the list, or the snapshot when
\* getTasks throws, selects the task again if it was active and is there,
\* and returns false.
DeletionReturns(t, getTasksThrows) ==
    /\ ipc.deletions[t].pc = "settled"
    /\ LET d == ipc.deletions[t]
           failed == ~d.removeOk \/ ~d.deleteOk
           refreshedTasks == ipc.db
           existing == renderer.tasks
           tasks == IF ~failed THEN existing
                    ELSE IF ~getTasksThrows THEN refreshedTasks
                    ELSE IF t \in SeqToSet(existing) THEN existing
                    ELSE << t >> \o existing
           restored == getTasksThrows \/ t \in SeqToSet(refreshedTasks)
       IN  /\ renderer' = [tasks |-> tasks,
                           activeTask |-> IF failed /\ d.wasActive /\ restored
                                          THEN t ELSE renderer.activeTask,
                           deleting |-> renderer.deleting \ {t}]
           /\ ipc' = [ipc EXCEPT !.deletions[t] = [@ EXCEPT !.pc = "returned",
                                                            !.result = ~failed]]
    /\ UNCHANGED << gitVars, watchVars, fileVars >>

\* The project's tasks as the database has them, shown in the list, one of
\* them active or none, and no deletion under way.
InitDelete ==
    /\ ipc \in { [db |-> q, deletions |-> [t \in TaskIds |-> NoDeletion]] : q \in TaskLists }
    /\ renderer \in { [tasks |-> ipc.db, activeTask |-> a, deleting |-> {}] :
                        a \in SeqToSet(ipc.db) \cup {NoTask} }
    /\ IdleWatch
    /\ IdleGit
    /\ IdleFiles

NextDelete ==
    \/ \E t \in TaskIds : HandleDeleteTask(t)
    \/ \E t \in TaskIds, removeOk, deleteOk \in BOOLEAN : DeletionSettles(t, removeOk, deleteOk)
    \/ \E t \in TaskIds, getTasksThrows \in BOOLEAN : DeletionReturns(t, getTasksThrows)

SpecDelete == InitDelete /\ [][NextDelete]_vars

\* ------------------------------------------------------------------------
\* Claims about handleDeleteTask
\* ------------------------------------------------------------------------

\* C29: when handleDeleteTask returns false because the worktree removal or
\* the database deletion failed, the task is in the project's list again,
\* exactly once, and is the active task again if it was active.
C29_FailedDeleteRestoresTask ==
    [][\A t \in TaskIds :
          (/\ ipc.deletions[t].pc = "settled"
           /\ ipc'.deletions[t].pc = "returned"
           /\ ~ipc'.deletions[t].result) =>
              /\ Occurrences(renderer'.tasks, t) = 1
              /\ ipc'.deletions[t].wasActive => renderer'.activeTask = t]_vars

\* ------------------------------------------------------------------------
\* CommitList when its taskPath changes while requests are in flight
\* ------------------------------------------------------------------------

\* The working trees the component is shown for, and the falsy taskPath.
ListPaths == { "/work/a", "/work/b" }
NoPath == ""

\* The repository at each of them: one whose log ends inside the second
\* page, and one whose log is exactly one page long.
RepoAt(p) ==
    [history |-> NewestFirst(IF p = "/work/a" THEN PageSize + 1 ELSE PageSize),
     nextCommit |-> PageSize + 2,
     hasOrigin |-> FALSE, upstreamConfigured |-> FALSE,
     originBranch |-> NoRef, originHead |-> NoRef]

\* The commits of a response, each with the path it was fetched for.
FetchedFor(p, commits) ==
    [i \in 1..Len(commits) |->
        [taskPath |-> p, hash |-> commits[i].hash, isPushed |-> commits[i].isPushed]]

\* window.electronAPI.gitGetLog as the effect calls it.
InitialRequest(p) ==
    [kind |-> "load", taskPath |-> p, skip |-> 0, aheadCount |-> None, cancelled |-> FALSE]

\* The cleanup of the effect: cancelled = true in the closure of every load
\* that was started before.
CancelLoads(requests) ==
    [i \in 1..Len(requests) |->
        IF requests[i].kind = "load" THEN [requests[i] EXCEPT !.cancelled = TRUE]
        ELSE requests[i]]

\* The parent renders the component with another taskPath: the effect's
\* cleanup runs, then the effect.
TaskPathChanges(p) ==
    /\ p # renderer.taskPath
    /\ p # NoPath => Len(ipc) < MaxInFlight
    /\ IF p = NoPath
       THEN /\ renderer' = [renderer EXCEPT !.taskPath = p, !.commits = << >>,
                                            !.hasMore = FALSE, !.aheadCount = None]
            /\ ipc' = CancelLoads(ipc)
       ELSE /\ renderer' = [renderer EXCEPT !.taskPath = p, !.loading = TRUE]
            /\ ipc' = Append(CancelLoads(ipc), InitialRequest(p))
    /\ UNCHANGED << gitVars, watchVars, fileVars >>

\* loadMore up to its await; the list and its "load more" row are rendered
\* only when loading is false.
LoadMoreAsked ==
    /\ ~renderer.loading
    /\ renderer.taskPath # NoPath /\ ~renderer.loadingMore /\ renderer.hasMore
    /\ Len(ipc) < MaxInFlight
    /\ renderer' = [renderer EXCEPT !.loadingMore = TRUE]
    /\ ipc' = Append(ipc, [kind |-> "more", taskPath |-> renderer.taskPath,
                           skip |-> Len(renderer.commits),
                           aheadCount |-> renderer.aheadCount, cancelled |-> FALSE])
    /\ UNCHANGED << gitVars, watchVars, fileVars >>

\* A gitGetLog call is answered, with success or without, and the code after
\* the await runs: that of load, or that of loadMore.
GetLogAnswers(i, success) ==
    /\ i \in 1..Len(ipc)
    /\ ipc' = SubSeq(ipc, 1, i - 1) \o SubSeq(ipc, i + 1, Len(ipc))
    /\ LET req == ipc[i]
           res == getLog(RepoAt(req.taskPath), PageSize, req.skip, req.aheadCount)
           commits == FetchedFor(req.taskPath, res.commits)
       IN  renderer' =
             IF req.kind = "load"
             THEN IF req.cancelled THEN renderer
                  ELSE IF success /\ res.ok
                  THEN [renderer EXCEPT !.commits = commits,
                                        !.aheadCount = Some(res.aheadCount),
                                        !.hasMore = Len(commits) >= PageSize,
                                        !.loading = FALSE]
                  ELSE [renderer EXCEPT !.loading = FALSE]
             ELSE IF success /\ res.ok /\ Len(commits) > 0
             THEN [renderer EXCEPT !.commits = @ \o commits,
                                   !.hasMore = Len(commits) >= PageSize,
                                   !.loadingMore = FALSE]
             ELSE [renderer EXCEPT !.hasMore = FALSE, !.loadingMore = FALSE]
    /\ UNCHANGED << gitVars, watchVars, fileVars >>

\* The component just mounted for a path: the effect has sent the first load.
InitPaths ==
    /\ renderer \in { [taskPath |-> p, commits |-> << >>, loading |-> TRUE,
                       loadingMore |-> FALSE, hasMore |-> FALSE, aheadCount |-> None] :
                        p \in ListPaths }
    /\ ipc = << InitialRequest(renderer.taskPath) >>
    /\ IdleWatch
    /\ IdleGit
    /\ IdleFiles

NextPaths ==
    \/ \E p \in ListPaths \cup {NoPath} : TaskPathChanges(p)
    \/ LoadMoreAsked
    \/ \E i \in 1..MaxInFlight, success \in BOOLEAN : GetLogAnswers(i, success)

SpecPaths == InitPaths /\ [][NextPaths]_vars

\* ------------------------------------------------------------------------
\* Claims about CommitList under a change of taskPath
\* ------------------------------------------------------------------------

\* C30: the list CommitList shows holds only commits fetched for the current
\* taskPath, and they are the first commits of that path's log, in order,
\* each once: no response asked for under an earlier taskPath is in it.
C30_ListOfCurrentPath ==
    ~renderer.loading =>
        \A i \in 1..Len(renderer.commits) :
            /\ renderer.commits[i].taskPath = renderer.taskPath
            /\ i <= Len(RepoAt(renderer.taskPath).history)
            /\ renderer.commits[i].hash = RepoAt(renderer.taskPath).history[i]

====
